---------------------------- MODULE Spec2Model ----------------------------
(***************************************************************************)
(* Model of the solar-logger firmware (omniscient24/solar-logger-esp32).   *)
(*                                                                         *)
(* The repository holds four firmware images.  A behaviour of Spec runs    *)
(* exactly one of them, chosen in Init by the variable `variant`:          *)
(*   "ota"  Code/solar_logger_complete_with_ota.ino (register-level INA219 *)
(*          driver, /data handler integrates and logs; the first 690 lines *)
(*          of Code/solar_logger_ina219_fixed.ino are the same driver)     *)
(*   "http" unnamed/part_000 (INA226-style register helpers with Adafruit  *)
(*          fallback, /data handler integrates and logs)                   *)
(*   "rtc"  unnamed/part_001 (timer-driven logSample with RTC midnight     *)
(*          reset)                                                         *)
(*   "snap" Code/solar_logger_ina219_fixed.ino lines 691-947 (sampler loop *)
(*          publishing a double-buffered snapshot with a sequence counter) *)
(*                                                                         *)
(* Number representation (floats are modelled by exact integers):          *)
(*   time          milliseconds of millis(); the unsigned counter is kept  *)
(*                 MillisBits wide instead of 32 bits wide                 *)
(*   calibration   hundredths (CAL_V = 100 is 1.0f)                        *)
(*   ota/http V    quarter-millivolts (4 mV = 16, 1.25 mV = 5)             *)
(*   ota current   multiples of the unit MAX_CURRENT/32768 A               *)
(*   http current  multiples of 1/600 A (2.5 uV / 0.0015 ohm)              *)
(*   rtc/snap      busV in mV, shunt in uV, current in mA, power in uW     *)
(*   energy        power unit x ms (the division by 3600000.0 is a fixed   *)
(*                 scale of the unit)                                      *)
(* A float that may be NaN is a record [nan, val].                         *)
(***************************************************************************)
EXTENDS Integers, Sequences, FiniteSets, TLC

(*************************** bounds of the model ***************************)
\* width in bits of the modelled millis() counter (32 in the hardware)
MillisBits == 13
\* how many integration calls (/data requests, log or sample ticks) a behaviour may take
MaxCalls == 2
\* how many iterations of loop() a behaviour may take
MaxTicks == 3
\* how many snapshots the sampler may publish
MaxPublish == 2
\* how many calendar days the RTC may advance
MaxDays == 2
MaxCalSets == 2
\* how many lines the log file read by an aggregation request holds
MaxLines == 3
\* how many restarts of the device a behaviour may take
MaxBoots == 1
\* how many firmware update attempts a behaviour may take, and how many
\* blocks an upload may carry
MaxUpdates == 2
MaxChunks == 2

MillisWrap == 2 ^ MillisBits

(**************************** program constants ****************************)
LOG_INTERVAL_MS == 5000
SAMPLE_INTERVAL_MS == 800
\* static float CAL_I = 1.0f, CAL_V = 1.0f, in hundredths
CAL_DEFAULT == 100
\* MAX_CURRENT 3.2f in tenths of an ampere, SHUNT_OHMS 0.1f as its inverse
MAX_CURRENT_dA == 32
SHUNT_OHMS_INV == 10

VARIABLES
  variant,        \* which firmware image runs
  pc,             \* "boot" | "wifi" | "running"
  millis,         \* the hardware millisecond counter, modulo MillisWrap
  calls,          \* integration calls taken so far
  ticks,          \* iterations of loop() taken so far
  \* ---- ota and http: globals
  energy_Wh, lastEnergyMs, CAL_I, CAL_V, ina219_calValue, current_lsb,
  \* ---- ota and http: the bus device, the SD card, the last /data answer
  devCal,         \* the chip's calibration register, 0 after power-up
  sdOk,           \* SD.begin succeeded
  calFile,        \* /cal.cfg: <<>> when absent, else <<CAL_I, CAL_V>>
  calSets,        \* calibration updates served so far
  logCsv,         \* the records appended to the log file, in file order
  served,         \* the last /data JSON: [vOk, iOk, voltage, current, power]
  \* ---- rtc (part_001): globals and the RTC chip
  energyToday_Wh, lastLogMs, haveRTC, haveINA, haveSD, lastDayOfYear,
  rtcDate,        \* the calendar date the RTC chip holds: [y, m, d]
  days,           \* days the RTC has advanced so far
  resets,         \* how often "Energy Today reset at midnight" was printed
  console,        \* the last "Log ..." line: the sample logSample measured
  \* ---- snap (ina219_fixed sampler): snapshot buffers and the two threads
  SNAP, SNAP_SEQ, lastSampleMs,
  published,      \* the samples handed to publishSnapshot, oldest first
  wpc, wn, ws, wfield,     \* publishSnapshot: position, n, argument, field
  rpc, s1, out, rfield,    \* getSnapshotCopy: position, s1, out, field
  rseen,          \* what the reader got: [done, out, pubs (published when it began), quiet]
  \* ---- the register codec applied to one raw register value
  regRaw,         \* a 16-bit register value as read from the bus
  decoded,        \* what each variant's decode functions make of it
  \* ---- one call of inaReadRegSafe
  reg,            \* [pc, retries0, retries, outVal, ret, hist (bus replies so far)]
  \* ---- one aggregation request of part_000
  csv,            \* the lines of /log.csv the request finds, in file order
  agg,            \* the answer: [kind, now, opened, sum, cnt, values]
  \* ---- restarts and firmware updates
  boots,          \* restarts of the device so far
  upd             \* the updater: [supplied, phase, chunks, error, image, rebooted, updates]

vars == << variant, pc, millis, calls, ticks,
           energy_Wh, lastEnergyMs, CAL_I, CAL_V, ina219_calValue, current_lsb,
           devCal, sdOk, calFile, calSets, logCsv, served,
           energyToday_Wh, lastLogMs, haveRTC, haveINA, haveSD, lastDayOfYear,
           rtcDate, days, resets, console,
           SNAP, SNAP_SEQ, lastSampleMs, published,
           wpc, wn, ws, wfield, rpc, s1, out, rfield, rseen, regRaw, decoded, reg,
           csv, agg, boots, upd >>

otaVars == << energy_Wh, CAL_I, CAL_V, ina219_calValue, current_lsb,
              devCal, sdOk, calFile, calSets, logCsv, served >>
rtcVars == << energyToday_Wh, lastLogMs, haveRTC, haveINA, haveSD,
              lastDayOfYear, rtcDate, days, resets, console >>
snapVars == << SNAP, SNAP_SEQ, lastSampleMs, published,
               wpc, wn, ws, wfield, rpc, s1, out, rfield, rseen >>
codecVars == << regRaw, decoded, reg, csv, agg, boots, upd >>

(****************************** float helpers ******************************)
NaN == [nan |-> TRUE, val |-> 0]
Flt(x) == [nan |-> FALSE, val |-> x]
isnan(f) == f.nan

\* unsigned long subtraction now - last, at the modelled width
ElapsedMs(now, last) == (now - last) % MillisWrap

(***************************** register codec ******************************)
\* a faulty decode that scales the register without the signed cast
Int16Unsigned(raw) == raw

\* (int16_t)raw
Int16(raw) == IF raw >= 32768 THEN raw - 65536 ELSE raw

\* ota / ina219_fixed: vbusV = ((raw >> 3) * 4.0) / 1000.0, in quarter-mV
DecodeVbus_ota(raw) == (raw \div 8) * 16

\* part_000: vbusV = (float)raw * 0.00125f, in quarter-mV
DecodeVbus_http(raw) == raw * 5

\* vbusV *= CAL_V (hundredths)
ApplyCal(x, cal) == (x * cal) \div CAL_DEFAULT

\* ota: currentA = (int16_t)raw * current_lsb
DecodeCurrent_ota(raw, lsb) == Int16(raw) * lsb

\* part_000: vshunt_mV = (int16_t)rawU * 0.0025f; amps = (vshunt_mV/1000)/SHUNT_OHMS
DecodeCurrent_http(rawU) == Int16(rawU)

\* ina219_calValue = (uint16_t)(0.04096 / (current_lsb * SHUNT_OHMS)),
\* with current_lsb = MAX_CURRENT / 32768.0
CalValue == (4096 * 32768 * SHUNT_OHMS_INV) \div (10000 * MAX_CURRENT_dA)


(******************************* input sets ********************************)
\* raw bus-voltage register values the chip may return (status bits included)
BusRawSamples == {12, 20}
\* raw current / shunt register values the chip may return
CurrentRawSamples == {2, 65534}
\* a failed i2c_read16 is the empty tuple, a successful one <<raw>>
BusReads == {<<>>} \cup {<<r>> : r \in BusRawSamples}
CurrentReads == {<<>>} \cup {<<r>> : r \in CurrentRawSamples}
\* milliseconds that may pass between two handler calls or loop iterations
ElapsedChoices == {1000, 5000, MillisWrap - 1000}
\* what /cal.cfg may hold at boot: absent, or <<CAL_I, CAL_V>> (hundredths),
\* zero and negative values included
CalFiles == {<<>>, <<150, 125>>, <<0, -50>>}
\* the query of a /cal request: which of i and v are present, and their atof
\* values (hundredths; 0 is also what atof makes of text that is no number)
CalQueries ==
  { [hasI |-> TRUE, i |-> 200, hasV |-> FALSE, v |-> 0],
    [hasI |-> FALSE, i |-> 0, hasV |-> TRUE, v |-> 0],
    [hasI |-> TRUE, i |-> -100, hasV |-> TRUE, v |-> 125] }
\* what the Adafruit library getters return (quarter-mV, 1/600 A)
LibBusSamples == {32}
LibCurrentSamples == {4}

HeaderLine == [kind |-> "header", v |-> NaN, i |-> NaN, p |-> NaN]
Row(v, i, p) == [kind |-> "row", v |-> v, i |-> i, p |-> p]

(***************** ota: solar_logger_complete_with_ota.ino *****************)
\* current_lsb = MAX_CURRENT / 32768.0, in units of MAX_CURRENT/32768 A
CurrentLsb == 1

\* INA219_init(): three register writes, each may fail; returns at the
\* first failure.  wReset, wCal, wCfg are the results of i2c_write16.
INA219_init(wReset, wCal, wCfg) ==
  IF ~wReset
  THEN UNCHANGED << current_lsb, ina219_calValue, devCal >>
  ELSE /\ current_lsb' = CurrentLsb
       /\ ina219_calValue' = CalValue
       /\ devCal' = IF wCal THEN CalValue ELSE devCal

\* setup(): SD mount, calibration load, CSV header, INA219_init; then the
\* Wi-Fi wait loop
setup_ota ==
  /\ variant = "ota" /\ pc = "boot"
  /\ UNCHANGED codecVars
  /\ \E mount \in BOOLEAN, wReset \in BOOLEAN, wCal \in BOOLEAN, wCfg \in BOOLEAN :
       /\ sdOk' = mount
       /\ IF mount /\ calFile # <<>>
          THEN CAL_I' = calFile[1] /\ CAL_V' = calFile[2]
          ELSE UNCHANGED << CAL_I, CAL_V >>
       /\ logCsv' = IF mount /\ logCsv = <<>> THEN << HeaderLine >> ELSE logCsv
       /\ INA219_init(wReset, wCal, wCfg)
  /\ millis' = 1000
  /\ pc' = "wifi"
  /\ UNCHANGED << variant, calls, ticks, energy_Wh, lastEnergyMs, calFile, calSets, served >>
  /\ UNCHANGED rtcVars /\ UNCHANGED snapVars

\* while (WiFi.status() != WL_CONNECTED) delay(500); then httpd_start
wifi_connected_ota ==
  /\ variant = "ota" /\ pc = "wifi"
  /\ UNCHANGED codecVars
  /\ pc' = "running"
  /\ UNCHANGED << variant, millis, calls, ticks, lastEnergyMs >>
  /\ UNCHANGED otaVars /\ UNCHANGED rtcVars /\ UNCHANGED snapVars

\* INA219_read_vbus_V: FALSE with v untouched (0), or TRUE with the decoded,
\* calibrated value
ReadVbus_ota(rd) ==
  IF rd = <<>> THEN [ok |-> FALSE, val |-> 0]
  ELSE [ok |-> TRUE, val |-> ApplyCal(DecodeVbus_ota(rd[1]), CAL_V)]

\* INA219_read_current_A
ReadCurrent_ota(rd) ==
  IF rd = <<>> THEN [ok |-> FALSE, val |-> 0]
  ELSE [ok |-> TRUE, val |-> ApplyCal(DecodeCurrent_ota(rd[1], current_lsb), CAL_I)]

\* a faulty integrator without the baseline test: the first call integrates
\* over the whole time since boot
Integrate_noBaseline(e, last, now, p) ==
  IF p > 0 THEN e + p * ElapsedMs(now, last) ELSE e

\* "Update energy": if (lastEnergyMs > 0 && p > 0) energy_Wh += p * hours
Integrate_ota(e, last, now, p) ==
  IF last > 0 /\ p > 0 THEN e + p * ElapsedMs(now, last) ELSE e

\* data_get_handler(): read, integrate, answer, append to the log
data_get_handler_ota ==
  /\ variant = "ota" /\ pc = "running" /\ calls < MaxCalls
  /\ UNCHANGED codecVars
  /\ \E d \in ElapsedChoices, vrd \in BusReads, ird \in CurrentReads,
        openOk \in BOOLEAN :
       LET rv == ReadVbus_ota(vrd)
           ri == ReadCurrent_ota(ird)
           p  == rv.val * ri.val
           now_ms == (millis + d) % MillisWrap
       IN /\ millis' = now_ms
          /\ energy_Wh' = Integrate_ota(energy_Wh, lastEnergyMs, now_ms, p)
          /\ lastEnergyMs' = now_ms
          /\ served' = [vOk |-> rv.ok, iOk |-> ri.ok, voltage |-> Flt(rv.val),
                        current |-> Flt(ri.val), power |-> Flt(p)]
          /\ logCsv' = IF sdOk /\ openOk
                       THEN Append(logCsv, Row(Flt(rv.val), Flt(ri.val), Flt(p)))
                       ELSE logCsv
  /\ calls' = calls + 1
  /\ UNCHANGED << variant, pc, ticks, CAL_I, CAL_V, ina219_calValue, current_lsb,
                  devCal, sdOk, calFile, calSets >>
  /\ UNCHANGED rtcVars /\ UNCHANGED snapVars

\* cal_set_handler(): with a query string, take i and v and write both
\* values to /cal.cfg when the file opens
cal_set_handler_ota ==
  /\ variant = "ota" /\ pc = "running" /\ calSets < MaxCalSets
  /\ UNCHANGED codecVars
  /\ \E hasQuery \in BOOLEAN, q \in CalQueries, openOk \in BOOLEAN :
       LET newI == IF hasQuery /\ q.hasI THEN q.i ELSE CAL_I
           newV == IF hasQuery /\ q.hasV THEN q.v ELSE CAL_V
       IN /\ CAL_I' = newI
          /\ CAL_V' = newV
          /\ calFile' = IF hasQuery /\ sdOk /\ openOk THEN << newI, newV >> ELSE calFile
  /\ calSets' = calSets + 1
  /\ UNCHANGED << variant, pc, millis, calls, ticks, energy_Wh, lastEnergyMs,
                  ina219_calValue, current_lsb, devCal, sdOk, logCsv, served >>
  /\ UNCHANGED rtcVars /\ UNCHANGED snapVars

(************************* http: unnamed/part_000 **************************)
\* loadCal() then the sanitising lines of setup()
SanitizeCal(c) == IF c <= 0 THEN CAL_DEFAULT ELSE c

\* setup(): Wi-Fi (restart when it fails), INA219 library init, SD mount,
\* ensureCsvHeader, loadCal, sanitise
setup_http ==
  /\ variant = "http" /\ pc = "boot"
  /\ UNCHANGED codecVars
  /\ \E wifi \in BOOLEAN, mount \in BOOLEAN :
       IF ~wifi
       THEN UNCHANGED vars       \* ESP.restart(): boots again
       ELSE /\ sdOk' = mount
            /\ logCsv' = IF mount /\ logCsv = <<>> THEN << HeaderLine >> ELSE logCsv
            /\ CAL_I' = SanitizeCal(IF mount /\ calFile # <<>> THEN calFile[1] ELSE CAL_I)
            /\ CAL_V' = SanitizeCal(IF mount /\ calFile # <<>> THEN calFile[2] ELSE CAL_V)
            /\ millis' = 200
            /\ pc' = "running"
            /\ UNCHANGED << variant, calls, ticks, energy_Wh, lastEnergyMs,
                            ina219_calValue, current_lsb, devCal, calFile, calSets, served >>
            /\ UNCHANGED rtcVars /\ UNCHANGED snapVars

\* cal_set_handler(): take i and v when present, then saveCal()
cal_set_handler_http ==
  /\ variant = "http" /\ pc = "running" /\ calSets < MaxCalSets
  /\ UNCHANGED codecVars
  /\ \E q \in CalQueries, openOk \in BOOLEAN :
       LET newI == IF q.hasI THEN q.i ELSE CAL_I
           newV == IF q.hasV THEN q.v ELSE CAL_V
       IN /\ CAL_I' = newI
          /\ CAL_V' = newV
          /\ calFile' = IF sdOk /\ openOk THEN << newI, newV >> ELSE calFile
  /\ calSets' = calSets + 1
  /\ UNCHANGED << variant, pc, millis, calls, ticks, energy_Wh, lastEnergyMs,
                  ina219_calValue, current_lsb, devCal, sdOk, logCsv, served >>
  /\ UNCHANGED rtcVars /\ UNCHANGED snapVars

\* if (lastEnergyMs == 0) lastEnergyMs = nowMs;
BaselineMs_http(last, now) == IF last = 0 THEN now ELSE last

\* dt_h = (nowMs - lastEnergyMs) / 3600000.0f; energy_Wh += (p * dt_h)
Integrate_http(e, last, now, p) ==
  e + p * ElapsedMs(now, BaselineMs_http(last, now))

\* data_get_handler(): register helpers, Adafruit library as fallback
data_get_handler_http ==
  /\ variant = "http" /\ pc = "running" /\ calls < MaxCalls
  /\ UNCHANGED codecVars
  /\ \E d \in ElapsedChoices, vrd \in BusReads, ird \in CurrentReads,
        libV \in LibBusSamples, libI \in LibCurrentSamples, openOk \in BOOLEAN :
       LET v_raw == IF vrd = <<>> THEN libV ELSE DecodeVbus_http(vrd[1])
           i_raw == IF ird = <<>> THEN libI ELSE DecodeCurrent_http(ird[1])
           v == ApplyCal(v_raw, CAL_V)
           i == ApplyCal(i_raw, CAL_I)
           p == v * i
           nowMs == (millis + d) % MillisWrap
       IN /\ millis' = nowMs
          /\ energy_Wh' = Integrate_http(energy_Wh, lastEnergyMs, nowMs, p)
          /\ lastEnergyMs' = nowMs
          /\ served' = [vOk |-> vrd # <<>>, iOk |-> ird # <<>>, voltage |-> Flt(v),
                        current |-> Flt(i), power |-> Flt(p)]
          /\ logCsv' = IF sdOk /\ openOk
                       THEN Append(logCsv, Row(Flt(v), Flt(i), Flt(p)))
                       ELSE logCsv
  /\ calls' = calls + 1
  /\ UNCHANGED << variant, pc, ticks, CAL_I, CAL_V, ina219_calValue, current_lsb,
                  devCal, sdOk, calFile, calSets >>
  /\ UNCHANGED rtcVars /\ UNCHANGED snapVars


(************************** rtc: unnamed/part_001 **************************)
IsLeap(y) == (y % 4 = 0 /\ y % 100 # 0) \/ (y % 400 = 0)

\* static const uint8_t dim[] = {31,28,31,30,31,30,31,31,30,31,30,31}
dim == << 31, 28, 31, 30, 31, 30, 31, 31, 30, 31, 30, 31 >>

\* the for loop of dayOfYear: months 1 .. upto-1 added to d
RECURSIVE DoyLoop(_, _, _, _)
DoyLoop(m, upto, y, d) ==
  IF m >= upto THEN d
  ELSE DoyLoop(m + 1, upto, y,
               d + dim[m] + (IF m = 2 /\ IsLeap(y) THEN 1 ELSE 0))

\* a day count that adds no leap day: the table alone
DayOfYearNoLeap(dt) == DoyLoop(1, dt.m, 2023, dt.d)

\* int dayOfYear(const DateTime& dt)
dayOfYear(dt) == DoyLoop(1, dt.m, dt.y, dt.d)

\* the calendar the RTC chip keeps (PCF8523, leap years included)
DaysInMonth(y, m) == IF m = 2 /\ IsLeap(y) THEN 29 ELSE dim[m]
NextDay(dt) ==
  IF dt.d < DaysInMonth(dt.y, dt.m) THEN [dt EXCEPT !.d = dt.d + 1]
  ELSE IF dt.m < 12 THEN [y |-> dt.y, m |-> dt.m + 1, d |-> 1]
  ELSE [y |-> dt.y + 1, m |-> 1, d |-> 1]

\* dates the RTC may hold at boot (after rtc.adjust, when it had lost power)
StartDates == { [y |-> 2023, m |-> 12, d |-> 30], [y |-> 2024, m |-> 2, d |-> 28] }

\* what ina219.getShuntVoltage_mV() (here uV) and getBusVoltage_V() (here mV)
\* return
LibReadings == { [shunt_uV |-> -30, busV_mV |-> 8], [shunt_uV |-> 60, busV_mV |-> 4] }

\* millis() when setup() reaches its last lines (delay(600), Wi-Fi up to 10 s)
SetupDoneMs == {1000, 6000}

Abs(x) == IF x < 0 THEN -x ELSE x

\* current_A = (abs(shunt_mV / 1000.0) / SHUNT_RESISTANCE_OHMS) * SHUNT_CALIBRATION_FACTOR;
\* current_mA = current_A * 1000.0   (0.0015 ohm, factor 6.2: uV * 62 / 15)
ShuntCurrent_mA(shunt_uV) == (Abs(shunt_uV) * 62) \div 15

\* power_mW = busV * current_A * 1000.0, here in uW
ShuntPower_uW(busV_mV, shunt_uV) == busV_mV * ShuntCurrent_mA(shunt_uV)

\* the measurement block of logSample: all NaN without the sensor
Measure_rtc(have, rd) ==
  IF have
  THEN [busV |-> Flt(rd.busV_mV), shunt |-> Flt(rd.shunt_uV),
        current |-> Flt(ShuntCurrent_mA(rd.shunt_uV)),
        power |-> Flt(ShuntPower_uW(rd.busV_mV, rd.shunt_uV)),
        sourceV |-> Flt(rd.busV_mV * 1000 + rd.shunt_uV)]
  ELSE [busV |-> NaN, shunt |-> NaN, current |-> NaN, power |-> NaN, sourceV |-> NaN]

\* a faulty logSample that runs the reset logic without a clock
ClockAssumed == TRUE

\* a faulty maybeMidnightReset that clears the total on every cycle
ResetEveryCycle(doy) == lastDayOfYear # -1

\* a faulty integrator that subtracts the timestamps the wrong way round
Integrate_reversed(e, last, tNow, power) ==
  IF isnan(power) THEN e ELSE e + power.val * ElapsedMs(last, tNow)

\* if (haveRTC) { now = rtc.now(); ...; maybeMidnightReset(now); }
ClockAvailable == haveRTC

\* maybeMidnightReset: the anchor is set when it was -1, and on a day change
\* the anchor moves and the total is cleared
MidnightResetDue(doy) == lastDayOfYear # -1 /\ doy # lastDayOfYear

\* hours = (tNow - lastEnergyMs) / 3600000.0f;
\* if (!isnan(power_mW)) energyToday_Wh += (power_mW / 1000.0f) * hours;
Integrate_rtc(e, last, tNow, power) ==
  IF isnan(power) THEN e ELSE e + power.val * ElapsedMs(tNow, last)

\* setup(): initINA, initRTC, initSD, Wi-Fi (bounded wait), routes, baseline
setup_rtc ==
  /\ variant = "rtc" /\ pc = "boot"
  /\ UNCHANGED codecVars
  /\ \E ina \in BOOLEAN, clk \in BOOLEAN, sd \in BOOLEAN, t \in SetupDoneMs :
       /\ haveINA' = ina
       /\ haveRTC' = clk
       /\ lastDayOfYear' = IF clk THEN dayOfYear(rtcDate) ELSE lastDayOfYear
       /\ haveSD' = sd
       /\ logCsv' = IF sd /\ logCsv = <<>> THEN << HeaderLine >> ELSE logCsv
       /\ millis' = t
       /\ lastEnergyMs' = t
  /\ pc' = "running"
  /\ UNCHANGED << variant, calls, ticks, energy_Wh, CAL_I, CAL_V, ina219_calValue,
                  current_lsb, devCal, sdOk, calFile, calSets, served,
                  energyToday_Wh, lastLogMs, rtcDate, days, resets, console >>
  /\ UNCHANGED snapVars

\* the key by which two RTC timestamps (now.timestamp()) compare
DateKey(dt) == (dt.y * 12 + dt.m) * 31 + dt.d

\* ts: now.timestamp() with the RTC, String(millis()/1000) + "s" without
Timestamp(tNow) ==
  IF ClockAvailable THEN [rtc |-> TRUE, key |-> DateKey(rtcDate)]
  ELSE [rtc |-> FALSE, key |-> tNow \div 1000]

\* a line of /solar_log.csv
RowAt(ts, v, i, p) == [kind |-> "row", ts |-> ts, v |-> v, i |-> i, p |-> p]

\* the Serial line of logSample, and "SD: append failed" when the file
\* does not open
ConsoleLine(m, msg) ==
  [busV |-> m.busV, shunt |-> m.shunt, current |-> m.current, power |-> m.power,
   sourceV |-> m.sourceV, sdMsg |-> msg]

\* logSample() at millis() = tNow
logSample(tNow, rd, openOk) ==
  LET doy   == dayOfYear(rtcDate)
      reset == ClockAvailable /\ MidnightResetDue(doy)
      m     == Measure_rtc(haveINA, rd)
      e0    == IF reset THEN 0 ELSE energyToday_Wh
      e1    == Integrate_rtc(e0, lastEnergyMs, tNow, m.power)
  IN /\ lastDayOfYear' = IF ClockAvailable THEN doy ELSE lastDayOfYear
     /\ resets' = IF reset THEN resets + 1 ELSE resets
     /\ energyToday_Wh' = e1
     /\ lastEnergyMs' = tNow
     /\ console' = ConsoleLine(m, IF haveSD /\ ~openOk THEN "SD: append failed" ELSE "")
     /\ logCsv' = IF haveSD /\ openOk
                  THEN Append(logCsv, RowAt(Timestamp(tNow), m.busV, m.current, m.power))
                  ELSE logCsv

\* loop(): the log tick fires once LOG_INTERVAL_MS have passed
loop_rtc ==
  /\ variant = "rtc" /\ pc = "running" /\ calls < MaxCalls /\ ticks < MaxTicks
  /\ UNCHANGED codecVars
  /\ ticks' = ticks + 1
  /\ \E d \in ElapsedChoices, rd \in LibReadings, openOk \in BOOLEAN :
       LET nowMs == (millis + d) % MillisWrap
       IN /\ millis' = nowMs
          /\ IF ElapsedMs(nowMs, lastLogMs) >= LOG_INTERVAL_MS
             THEN /\ lastLogMs' = nowMs
                  /\ logSample(nowMs, rd, openOk)
                  /\ calls' = calls + 1
             ELSE UNCHANGED << lastLogMs, lastDayOfYear, resets, energyToday_Wh,
                               lastEnergyMs, console, logCsv, calls >>
  /\ UNCHANGED << variant, pc, energy_Wh, CAL_I, CAL_V, ina219_calValue,
                  current_lsb, devCal, sdOk, calFile, calSets, served,
                  haveRTC, haveINA, haveSD, rtcDate, days >>
  /\ UNCHANGED snapVars

\* handleData(): a fresh measurement, NaN fields without the sensor
handleData_rtc ==
  /\ variant = "rtc" /\ pc = "running"
  /\ UNCHANGED codecVars
  /\ \E rd \in LibReadings :
       LET m == Measure_rtc(haveINA, rd)
       IN served' = [vOk |-> haveINA, iOk |-> haveINA, voltage |-> m.busV,
                     current |-> m.current, power |-> m.power]
  /\ UNCHANGED << variant, pc, millis, calls, ticks, energy_Wh, lastEnergyMs, CAL_I, CAL_V,
                  ina219_calValue, current_lsb, devCal, sdOk, calFile, calSets,
                  logCsv >>
  /\ UNCHANGED rtcVars /\ UNCHANGED snapVars

\* the RTC chip passes midnight
rtc_midnight ==
  /\ variant = "rtc" /\ days < MaxDays
  /\ UNCHANGED codecVars
  /\ rtcDate' = NextDay(rtcDate)
  /\ days' = days + 1
  /\ UNCHANGED << variant, pc, millis, calls, ticks, lastEnergyMs >>
  /\ UNCHANGED otaVars
  /\ UNCHANGED << energyToday_Wh, lastLogMs, haveRTC, haveINA, haveSD,
                  lastDayOfYear, resets, console >>
  /\ UNCHANGED snapVars


(********** snap: solar_logger_ina219_fixed.ino, sampler variant ***********)
\* struct Sample, in declaration order
SampleFields == << "v_bus_V", "v_shunt_mV", "current_mA", "power_mW", "v_source_V", "ms" >>
NFields == Len(SampleFields)

\* the member initialisers of struct Sample
DefaultSample ==
  [v_bus_V |-> NaN, v_shunt_mV |-> NaN, current_mA |-> NaN, power_mW |-> NaN,
   v_source_V |-> NaN, ms |-> Flt(0)]

\* what the Adafruit getters return in sampleINA (mV, uV, mA, uW)
SnapReadings ==
  { [busV_mV |-> 8, shunt_uV |-> 30, curr_mA |-> 3, pow_uW |-> 24],
    [busV_mV |-> 4, shunt_uV |-> 60, curr_mA |-> 6, pow_uW |-> 25] }

\* sampleINA(): the Sample it builds at millis() = t
BuildSample(have, rd, t) ==
  IF ~have THEN [DefaultSample EXCEPT !.ms = Flt(t)]
  ELSE [v_bus_V |-> Flt(rd.busV_mV), v_shunt_mV |-> Flt(rd.shunt_uV),
        current_mA |-> Flt(rd.curr_mA), power_mW |-> Flt(rd.pow_uW),
        v_source_V |-> Flt(rd.busV_mV * 1000 + rd.shunt_uV), ms |-> Flt(t)]

\* a faulty publisher that steps the sequence by two: the sequence stays even
\* while the slot readers copy from is being written
BeginSeqSkip(seq) == seq + 2

\* publishSnapshot: uint32_t n = SNAP_SEQ + 1
BeginSeq(seq) == seq + 1

\* publishSnapshot: SNAP[n & 1] = s
WriteSlot(n) == n % 2

\* getSnapshotCopy: out = SNAP[s1 & 1]
ReadSlot(seq) == seq % 2

\* a faulty exit test that takes an odd sequence for the stable one
CopyStableOdd(a, b) == a = b /\ b % 2 = 1

\* getSnapshotCopy: if (s1 == s2 && !(s2 & 1)) break
CopyStable(a, b) == a = b /\ b % 2 = 0

\* getSnapshotCopy run by the thread that publishes (loop): nothing writes
\* while it runs, so its first pass succeeds
SnapshotOfLoop == SNAP[ReadSlot(SNAP_SEQ)]

\* setup(): ina219.begin, Wi-Fi (bounded wait), routes, then sampleINA()
setup_snap ==
  /\ variant = "snap" /\ pc = "boot"
  /\ UNCHANGED codecVars
  /\ \E ina \in BOOLEAN, rd \in SnapReadings :
       /\ haveINA' = ina
       /\ ws' = BuildSample(ina, rd, 1000)
  /\ millis' = 1000
  /\ pc' = "setup"
  /\ wpc' = "begin"
  /\ UNCHANGED << variant, calls, ticks, lastEnergyMs >>
  /\ UNCHANGED otaVars
  /\ UNCHANGED << energyToday_Wh, lastLogMs, haveRTC, haveSD, lastDayOfYear,
                  rtcDate, days, resets, console >>
  /\ UNCHANGED << SNAP, SNAP_SEQ, lastSampleMs, published, wn, wfield,
                  rpc, s1, out, rfield, rseen >>

\* loop(): the sample tick; sampleINA() starts when it is due
loop_snap ==
  /\ variant = "snap" /\ pc = "running" /\ wpc = "idle"
  /\ UNCHANGED codecVars
  /\ calls < MaxCalls /\ ticks < MaxTicks /\ Len(published) < MaxPublish
  /\ ticks' = ticks + 1
  /\ \E d \in ElapsedChoices, rd \in SnapReadings :
       LET nowMs == (millis + d) % MillisWrap
       IN /\ millis' = nowMs
          /\ IF ElapsedMs(nowMs, lastSampleMs) >= SAMPLE_INTERVAL_MS
             THEN /\ lastSampleMs' = nowMs
                  /\ ws' = BuildSample(haveINA, rd, nowMs)
                  /\ wpc' = "begin"
             ELSE UNCHANGED << lastSampleMs, ws, wpc >>
  /\ UNCHANGED << variant, pc, calls, lastEnergyMs >>
  /\ UNCHANGED otaVars /\ UNCHANGED rtcVars
  /\ UNCHANGED << SNAP, SNAP_SEQ, published, wn, wfield, rpc, s1, out, rfield, rseen >>

\* publishSnapshot: n = SNAP_SEQ + 1; SNAP_SEQ = n
publish_begin ==
  /\ variant = "snap" /\ wpc = "begin"
  /\ UNCHANGED codecVars
  /\ wn' = BeginSeq(SNAP_SEQ)
  /\ SNAP_SEQ' = BeginSeq(SNAP_SEQ)
  /\ published' = Append(published, ws)
  /\ wfield' = 1
  /\ wpc' = "copy"
  /\ UNCHANGED << variant, pc, millis, calls, ticks, lastEnergyMs >>
  /\ UNCHANGED otaVars /\ UNCHANGED rtcVars
  /\ UNCHANGED << SNAP, lastSampleMs, ws, rpc, s1, out, rfield, rseen >>

\* publishSnapshot: SNAP[n & 1] = s, one member at a time
publish_copy ==
  /\ variant = "snap" /\ wpc = "copy"
  /\ UNCHANGED codecVars
  /\ SNAP' = [SNAP EXCEPT ![WriteSlot(wn)][SampleFields[wfield]] = ws[SampleFields[wfield]]]
  /\ IF wfield < NFields
     THEN wfield' = wfield + 1 /\ wpc' = "copy"
     ELSE wfield' = 1 /\ wpc' = "end"
  /\ UNCHANGED << variant, pc, millis, calls, ticks, lastEnergyMs >>
  /\ UNCHANGED otaVars /\ UNCHANGED rtcVars
  /\ UNCHANGED << SNAP_SEQ, lastSampleMs, published, wn, ws, rpc, s1, out, rfield, rseen >>

\* publishSnapshot: SNAP_SEQ = n + 1; sampleINA returns
publish_end ==
  /\ variant = "snap" /\ wpc = "end"
  /\ UNCHANGED codecVars
  /\ SNAP_SEQ' = wn + 1
  /\ wpc' = "after"
  /\ UNCHANGED << variant, pc, millis, calls, ticks, lastEnergyMs >>
  /\ UNCHANGED otaVars /\ UNCHANGED rtcVars
  /\ UNCHANGED << SNAP, lastSampleMs, published, wn, ws, wfield, rpc, s1, out, rfield, rseen >>

\* after sampleINA(): setup() records the baselines; loop() takes
\* s = getSnapshotCopy() and integrates s.power_mW
after_sample ==
  /\ variant = "snap" /\ wpc = "after"
  /\ UNCHANGED codecVars
  /\ IF pc = "setup"
     THEN /\ lastSampleMs' = millis
          /\ lastEnergyMs' = millis
          /\ UNCHANGED energyToday_Wh
     ELSE /\ energyToday_Wh' = Integrate_rtc(energyToday_Wh, lastEnergyMs, lastSampleMs,
                                            SnapshotOfLoop.power_mW)
          /\ lastEnergyMs' = lastSampleMs
          /\ UNCHANGED lastSampleMs
  /\ calls' = IF pc = "setup" THEN calls ELSE calls + 1
  /\ pc' = "running"
  /\ wpc' = "idle"
  /\ UNCHANGED << variant, millis, ticks >>
  /\ UNCHANGED otaVars
  /\ UNCHANGED << lastLogMs, haveRTC, haveINA, haveSD, lastDayOfYear,
                  rtcDate, days, resets, console >>
  /\ UNCHANGED << SNAP, SNAP_SEQ, published, wn, ws, wfield, rpc, s1, out, rfield, rseen >>

\* handleData / handleRoot call getSnapshotCopy: Sample out; for (;;) ...
reader_call ==
  /\ variant = "snap" /\ pc # "boot" /\ rpc \in {"idle", "done"}
  /\ UNCHANGED codecVars
  /\ out' = DefaultSample
  /\ rpc' = "s1"
  /\ rseen' = [done |-> FALSE, out |-> DefaultSample, pubs |-> Len(published),
               quiet |-> wpc \in {"idle", "after"}]
  /\ UNCHANGED << variant, pc, millis, calls, ticks, lastEnergyMs >>
  /\ UNCHANGED otaVars /\ UNCHANGED rtcVars
  /\ UNCHANGED << SNAP, SNAP_SEQ, lastSampleMs, published, wpc, wn, ws, wfield, s1, rfield >>

\* uint32_t s1 = SNAP_SEQ; if (s1 & 1) continue;
reader_s1 ==
  /\ variant = "snap" /\ rpc = "s1"
  /\ UNCHANGED codecVars
  /\ s1' = SNAP_SEQ
  /\ rfield' = 1
  /\ rpc' = IF SNAP_SEQ % 2 = 1 THEN "s1" ELSE "copy"
  /\ UNCHANGED << variant, pc, millis, calls, ticks, lastEnergyMs >>
  /\ UNCHANGED otaVars /\ UNCHANGED rtcVars
  /\ UNCHANGED << SNAP, SNAP_SEQ, lastSampleMs, published, wpc, wn, ws, wfield, out, rseen >>

\* out = SNAP[s1 & 1], one member at a time
reader_copy ==
  /\ variant = "snap" /\ rpc = "copy"
  /\ UNCHANGED codecVars
  /\ out' = [out EXCEPT ![SampleFields[rfield]] = SNAP[ReadSlot(s1)][SampleFields[rfield]]]
  /\ IF rfield < NFields
     THEN rfield' = rfield + 1 /\ rpc' = "copy"
     ELSE rfield' = 1 /\ rpc' = "s2"
  /\ UNCHANGED << variant, pc, millis, calls, ticks, lastEnergyMs >>
  /\ UNCHANGED otaVars /\ UNCHANGED rtcVars
  /\ UNCHANGED << SNAP, SNAP_SEQ, lastSampleMs, published, wpc, wn, ws, wfield, s1, rseen >>

\* uint32_t s2 = SNAP_SEQ; if (s1 == s2 && !(s2 & 1)) break; delay(1);
reader_s2 ==
  /\ variant = "snap" /\ rpc = "s2"
  /\ UNCHANGED codecVars
  /\ IF CopyStable(s1, SNAP_SEQ)
     THEN /\ rpc' = "done"
          /\ rseen' = [rseen EXCEPT !.done = TRUE, !.out = out]
     ELSE /\ rpc' = "s1"
          /\ UNCHANGED rseen
  /\ UNCHANGED << variant, pc, millis, calls, ticks, lastEnergyMs >>
  /\ UNCHANGED otaVars /\ UNCHANGED rtcVars
  /\ UNCHANGED << SNAP, SNAP_SEQ, lastSampleMs, published, wpc, wn, ws, wfield, s1, out, rfield >>

(***************************** specification *******************************)
\* uint8_t retries = 4
DefaultRetries == 4
\* outVal = 0xFFFF
FailValue == 65535

NoRegRead == [pc |-> "idle", retries0 |-> DefaultRetries, retries |-> DefaultRetries,
              outVal |-> 0, ret |-> FALSE, hist |-> <<>>]

NoDecode == [done |-> FALSE, vbus_ota |-> 0, vbus_http |-> 0, current_ota |-> 0,
             current_http |-> 0]

\* no upload under way, the installed firmware running
NoUpdate == [supplied |-> "", phase |-> "idle", chunks |-> 0, error |-> FALSE,
             image |-> "installed", rebooted |-> FALSE, updates |-> 0]

NoAgg == [kind |-> "none", now |-> 0, opened |-> FALSE, sum |-> <<>>, cnt |-> <<>>,
          values |-> <<>>]

Init ==
  /\ regRaw = 0 /\ decoded = NoDecode /\ reg = NoRegRead
  /\ csv = <<>> /\ agg = NoAgg /\ boots = 0 /\ upd = NoUpdate
  /\ variant \in {"ota", "http", "rtc", "snap"}
  /\ pc = "boot"
  /\ millis = 0
  /\ calls = 0 /\ ticks = 0
  /\ energy_Wh = 0 /\ lastEnergyMs = 0
  /\ CAL_I = CAL_DEFAULT /\ CAL_V = CAL_DEFAULT
  /\ ina219_calValue = 0 /\ current_lsb = 0
  /\ devCal = 0 /\ sdOk = FALSE
  /\ calFile \in (IF variant \in {"ota", "http"} THEN CalFiles ELSE {<<>>})
  /\ calSets = 0
  /\ logCsv = <<>>
  /\ served = [vOk |-> FALSE, iOk |-> FALSE, voltage |-> NaN, current |-> NaN, power |-> NaN]
  /\ energyToday_Wh = 0 /\ lastLogMs = 0
  /\ haveRTC = FALSE /\ haveINA = FALSE /\ haveSD = FALSE
  /\ lastDayOfYear = -1
  /\ rtcDate \in (IF variant = "rtc" THEN StartDates ELSE {[y |-> 2023, m |-> 12, d |-> 30]})
  /\ days = 0 /\ resets = 0
  /\ console = [busV |-> NaN, shunt |-> NaN, current |-> NaN, power |-> NaN, sourceV |-> NaN,
               sdMsg |-> ""]
  /\ SNAP = [k \in {0, 1} |-> DefaultSample]
  /\ SNAP_SEQ = 0 /\ lastSampleMs = 0
  /\ published = <<>>
  /\ wpc = "idle" /\ wn = 0 /\ ws = DefaultSample /\ wfield = 1
  /\ rpc = "idle" /\ s1 = 0 /\ out = DefaultSample /\ rfield = 1
  /\ rseen = [done |-> FALSE, out |-> DefaultSample, pubs |-> 0, quiet |-> TRUE]

Next ==
  \/ setup_ota \/ wifi_connected_ota \/ data_get_handler_ota
  \/ setup_http \/ data_get_handler_http
  \/ setup_rtc \/ loop_rtc \/ handleData_rtc \/ rtc_midnight
  \/ setup_snap \/ loop_snap \/ publish_begin \/ publish_copy \/ publish_end
  \/ after_sample
  \/ reader_call \/ reader_s1 \/ reader_copy \/ reader_s2

Spec == Init /\ [][Next]_vars

\* what the firmware does by itself runs on: setup() and loop() are called
\* by the Arduino core. The Wi-Fi connecting, HTTP requests and midnight are
\* up to the environment and get no fairness.
SpecLive ==
  /\ Spec
  /\ WF_vars(setup_ota) /\ WF_vars(setup_http)
  /\ WF_vars(setup_rtc) /\ WF_vars(loop_rtc)
  /\ WF_vars(setup_snap) /\ WF_vars(loop_snap)
  /\ WF_vars(publish_begin) /\ WF_vars(publish_copy) /\ WF_vars(publish_end)
  /\ WF_vars(after_sample)

\* the sampler variant with both threads scheduled fairly: a thread that can
\* take a step of publishSnapshot or of getSnapshotCopy eventually takes it
InitSnap == Init /\ variant = "snap"

NextSnap ==
  \/ setup_snap \/ loop_snap \/ publish_begin \/ publish_copy \/ publish_end
  \/ after_sample
  \/ reader_call \/ reader_s1 \/ reader_copy \/ reader_s2

SpecSnapLive ==
  /\ InitSnap /\ [][NextSnap]_vars
  /\ WF_vars(setup_snap) /\ WF_vars(loop_snap)
  /\ WF_vars(publish_begin) /\ WF_vars(publish_copy) /\ WF_vars(publish_end)
  /\ WF_vars(after_sample)
  /\ WF_vars(reader_s1) /\ WF_vars(reader_copy) /\ WF_vars(reader_s2)

(****************** restarts of the device (ota, rtc) **********************)
\* a reset or power cycle of the ESP32 (ESP.restart() after an update, a
\* brown-out, the reset button): every global is initialised again and
\* millis() starts at 0; the SD card, the RTC chip and the INA219 keep what
\* they hold
device_restart ==
  /\ variant \in {"ota", "rtc"} /\ pc = "running"
  /\ boots < MaxBoots
  /\ boots' = boots + 1
  /\ pc' = "boot" /\ millis' = 0
  /\ energy_Wh' = 0 /\ lastEnergyMs' = 0
  /\ CAL_I' = CAL_DEFAULT /\ CAL_V' = CAL_DEFAULT
  /\ ina219_calValue' = 0 /\ current_lsb' = 0 /\ sdOk' = FALSE
  /\ served' = [vOk |-> FALSE, iOk |-> FALSE, voltage |-> NaN, current |-> NaN, power |-> NaN]
  /\ energyToday_Wh' = 0 /\ lastLogMs' = 0
  /\ haveRTC' = FALSE /\ haveINA' = FALSE /\ haveSD' = FALSE
  /\ lastDayOfYear' = -1
  /\ console' = [busV |-> NaN, shunt |-> NaN, current |-> NaN, power |-> NaN, sourceV |-> NaN,
                sdMsg |-> ""]
  /\ UNCHANGED << variant, calls, ticks, devCal, calFile, calSets, logCsv,
                  rtcDate, days, resets, regRaw, decoded, reg, csv, agg, upd >>
  /\ UNCHANGED snapVars

InitRestart == Init /\ variant \in {"ota", "rtc"}

NextRestart ==
  \/ setup_ota \/ wifi_connected_ota \/ data_get_handler_ota
  \/ setup_rtc \/ loop_rtc \/ handleData_rtc \/ rtc_midnight
  \/ device_restart

SpecRestart == InitRestart /\ [][NextRestart]_vars

(****************** the calibration store on its own ***********************)
\* boot and the /cal requests of the two variants that keep /cal.cfg
InitCal == Init /\ variant \in {"ota", "http"}

NextCal ==
  \/ setup_ota \/ wifi_connected_ota \/ cal_set_handler_ota
  \/ setup_http \/ cal_set_handler_http

SpecCal == InitCal /\ [][NextCal]_vars


(******************* the register codec on its own *************************)
\* every value a 16-bit register can hold
RawRegisters == 0 .. 65535

\* the decode lines of INA219_read_vbus_V and INA219_read_current_A of both
\* register-level drivers, applied to the register value read
decode_registers ==
  /\ variant = "codec" /\ ~decoded.done
  /\ decoded' = [done |-> TRUE,
                 vbus_ota |-> DecodeVbus_ota(regRaw),
                 vbus_http |-> DecodeVbus_http(regRaw),
                 current_ota |-> DecodeCurrent_ota(regRaw, CurrentLsb),
                 current_http |-> DecodeCurrent_http(regRaw)]
  /\ UNCHANGED << variant, pc, millis, calls, ticks, lastEnergyMs, regRaw, reg, csv, agg, boots, upd >>
  /\ UNCHANGED otaVars /\ UNCHANGED rtcVars /\ UNCHANGED snapVars

\* the firmware's globals as the initialisers leave them
FirmwareIdle ==
  /\ pc = "boot" /\ millis = 0 /\ calls = 0 /\ ticks = 0
  /\ energy_Wh = 0 /\ lastEnergyMs = 0
  /\ CAL_I = CAL_DEFAULT /\ CAL_V = CAL_DEFAULT
  /\ ina219_calValue = 0 /\ current_lsb = 0
  /\ devCal = 0 /\ sdOk = FALSE /\ calFile = <<>> /\ calSets = 0 /\ logCsv = <<>>
  /\ served = [vOk |-> FALSE, iOk |-> FALSE, voltage |-> NaN, current |-> NaN, power |-> NaN]
  /\ energyToday_Wh = 0 /\ lastLogMs = 0
  /\ haveRTC = FALSE /\ haveINA = FALSE /\ haveSD = FALSE
  /\ lastDayOfYear = -1
  /\ rtcDate = [y |-> 2023, m |-> 12, d |-> 30]
  /\ days = 0 /\ resets = 0
  /\ console = [busV |-> NaN, shunt |-> NaN, current |-> NaN, power |-> NaN, sourceV |-> NaN,
               sdMsg |-> ""]
  /\ SNAP = [k \in {0, 1} |-> DefaultSample]
  /\ SNAP_SEQ = 0 /\ lastSampleMs = 0
  /\ published = <<>>
  /\ wpc = "idle" /\ wn = 0 /\ ws = DefaultSample /\ wfield = 1
  /\ rpc = "idle" /\ s1 = 0 /\ out = DefaultSample /\ rfield = 1
  /\ rseen = [done |-> FALSE, out |-> DefaultSample, pubs |-> 0, quiet |-> TRUE]

InitCodec ==
  /\ variant = "codec"
  /\ regRaw \in RawRegisters /\ decoded = NoDecode /\ reg = NoRegRead
  /\ csv = <<>> /\ agg = NoAgg /\ boots = 0 /\ upd = NoUpdate
  /\ FirmwareIdle

NextCodec == decode_registers

SpecCodec == InitCodec /\ [][NextCodec]_vars


(************** inaReadRegSafe on its own (part_001) ***********************)
\* what one bus attempt may do: the address is not acknowledged
\* (endTransmission != 0), fewer than 2 bytes arrive, 2 bytes are announced
\* but a read returns -1, or 2 bytes arrive
BusReplies ==
  { [kind |-> "nack", val |-> 0], [kind |-> "short", val |-> 0],
    [kind |-> "noread", val |-> 0] }
    \cup { [kind |-> "ok", val |-> v] : v \in {0, 14751, 65535} }

\* a faulty test that takes any answered request for a good one
AnyReply(r) == r.kind # "nack"

\* got == 2 and hi >= 0 && lo >= 0
GoodReply(r) == r.kind = "ok"

\* while (retries--) on a uint8_t
RetriesAfter(r) == (r - 1) % 256

\* one evaluation of while (retries--) and, when the loop is entered, one pass
\* of its body; leaving the loop sets outVal = 0xFFFF and returns false
inaReadRegSafe_step ==
  /\ variant = "regs" /\ reg.pc = "loop"
  /\ IF reg.retries = 0
     THEN reg' = [reg EXCEPT !.pc = "done", !.retries = RetriesAfter(reg.retries),
                             !.outVal = FailValue, !.ret = FALSE]
     ELSE \E r \in BusReplies :
            IF GoodReply(r)
            THEN reg' = [reg EXCEPT !.pc = "done", !.retries = RetriesAfter(reg.retries),
                                    !.outVal = r.val, !.ret = TRUE,
                                    !.hist = Append(reg.hist, r)]
            ELSE reg' = [reg EXCEPT !.retries = RetriesAfter(reg.retries),
                                    !.hist = Append(reg.hist, r)]
  /\ UNCHANGED << variant, pc, millis, calls, ticks, lastEnergyMs, regRaw, decoded, csv, agg, boots, upd >>
  /\ UNCHANGED otaVars /\ UNCHANGED rtcVars /\ UNCHANGED snapVars

\* a call with any retries argument up to the default and any content of the
\* caller's uninitialised outVal
InitRegs ==
  /\ variant = "regs"
  /\ regRaw = 0 /\ decoded = NoDecode
  /\ csv = <<>> /\ agg = NoAgg /\ boots = 0 /\ upd = NoUpdate
  /\ \E n \in 0 .. DefaultRetries, u \in {0, 4660} :
       reg = [pc |-> "loop", retries0 |-> n, retries |-> n, outVal |-> u,
              ret |-> FALSE, hist |-> <<>>]
  /\ FirmwareIdle

NextRegs == inaReadRegSafe_step

\* the function runs to its end: every pass of the loop returns (the Wire
\* calls are bounded by Wire.setTimeOut)
SpecRegs == InitRegs /\ [][NextRegs]_vars /\ WF_vars(inaReadRegSafe_step)

(************ the aggregation handlers on their own (part_000) *************)
\* Times are whole hours since 2024-01-01 00:00 local time (the log's epoch
\* seconds divided by 3600), powers are whole watts, energies are kept
\* doubled (0.5 * (wPrev + w) * dt_h is (wPrev + w) * dt_h halves of a Wh).
\* The time zone is the one secrets.h is documented with
\* ("CST6CDT,M3.2.0,M11.1.0"): the local clock is set forward by one hour
\* at 02:00 of the day DstDay.
DAYS == 30
MOS == 12
\* 2024-03-10, counted from 2024-01-01 = day 0
DstDay == 69

\* integer division of C: the quotient is truncated toward zero
TruncDiv(a, b) == IF a >= 0 THEN a \div b ELSE -((-a) \div b)

\* the local calendar day an instant falls on, and the instant a local day
\* begins at: the day DstDay is 23 hours long
DayOf(ep) == IF ep < 24 * (DstDay + 1) - 1 THEN ep \div 24 ELSE (ep + 1) \div 24
DayStart(d) == IF d <= DstDay THEN 24 * d ELSE 24 * d - 1

\* localtime_r, tm_hour = tm_min = tm_sec = 0, mktime
LocalMidnight(ep) == DayStart(DayOf(ep))

\* tm_hour of localtime_r
HourOf(ep) ==
  LET h == ep - LocalMidnight(ep)
  IN  IF DayOf(ep) = DstDay /\ h >= 2 THEN h + 1 ELSE h

\* the day the k-th month after January 2024 begins on
RECURSIVE MonthFirstDay(_)
MonthFirstDay(k) ==
  IF k = 0 THEN 0
  ELSE MonthFirstDay(k - 1) + DaysInMonth(2024 + ((k - 1) \div 12), ((k - 1) % 12) + 1)

\* tm_year and tm_mon of localtime_r, as months since January 2024
MonthOf(ep) ==
  CHOOSE k \in 0 .. 23 : MonthFirstDay(k) <= DayOf(ep) /\ DayOf(ep) < MonthFirstDay(k + 1)

\* the lines a log file is made of: [short (fewer than 10 characters),
\* header (starts with "epoch"), commas, numeric (the text before the first
\* comma is a number), ep (that number), w (the number after the 4th comma)]
CsvRow(ep, w) == [short |-> FALSE, header |-> FALSE, commas |-> 4, numeric |-> TRUE,
                  ep |-> ep, w |-> w]
CsvHeader == [short |-> FALSE, header |-> TRUE, commas |-> 4, numeric |-> FALSE,
               ep |-> 0, w |-> 0]
BlankLine == [short |-> TRUE, header |-> FALSE, commas |-> 0, numeric |-> FALSE,
              ep |-> 0, w |-> 0]
\* "13,2024-01-01T13:00:00,12.100,30.000": the power field is missing
FourFieldLine == [short |-> FALSE, header |-> FALSE, commas |-> 3, numeric |-> TRUE,
                  ep |-> 13, w |-> 30]
\* "1645,2024-03-09T13:00:00,12.100,2.500,30.000,extra"
SixFieldLine == [short |-> FALSE, header |-> FALSE, commas |-> 5, numeric |-> TRUE,
                 ep |-> 1645, w |-> 30]
\* "n/a,2024-03-09T13:00:00,12.100,2.500,30.000"
BadEpochLine == [short |-> FALSE, header |-> FALSE, commas |-> 4, numeric |-> FALSE,
                 ep |-> 0, w |-> 30]

\* 2024-01-01 13:00, 2024-03-09 08:00 and 13:00, 2024-03-11 21:00
Epochs == {13, 1640, 1645, 1700}
Watts == {10, 30}
LogLines ==
  { CsvRow(e, w) : e \in Epochs, w \in Watts }
    \cup { CsvHeader, BlankLine, FourFieldLine, SixFieldLine, BadEpochLine }

\* the instants a request arrives at: 2024-01-02, 2024-03-09, 2024-03-12
Nows == {35, 1650, 1710}

\* String::toInt(): 0 when the text does not start with a number
toInt(line) == IF line.numeric THEN line.ep ELSE 0

\* parseLogLine: false unless four commas are found; ep and w are taken from
\* the text before the first and after the fourth comma
parseLogLine(line) == [ok |-> line.commas >= 4, ep |-> toInt(line), w |-> line.w]

\* if (line.length()<10 || line.startsWith("epoch")) continue;
\* if (!parseLogLine(line,ep,w)) continue;
Skipped(line) == line.short \/ line.header \/ ~parseLogLine(line).ok

Zeros(n) == [i \in 0 .. n - 1 |-> 0]

\* the while loop of hourly_get_handler from line k on
RECURSIVE hourly_loop(_, _, _, _, _)
hourly_loop(lines, k, startDay, sum, cnt) ==
  IF k > Len(lines) THEN [sum |-> sum, cnt |-> cnt]
  ELSE LET p == parseLogLine(lines[k])
           endDay == startDay + 24
       IN  IF Skipped(lines[k]) \/ p.ep < startDay \/ p.ep >= endDay
           THEN hourly_loop(lines, k + 1, startDay, sum, cnt)
           ELSE hourly_loop(lines, k + 1, startDay,
                            [sum EXCEPT ![HourOf(p.ep)] = @ + p.w],
                            [cnt EXCEPT ![HourOf(p.ep)] = @ + 1])

\* the while loop of daily_get_handler from line k on
RECURSIVE daily_loop(_, _, _, _, _, _)
daily_loop(lines, k, today0, epPrev, wPrev, wh) ==
  IF k > Len(lines) THEN wh
  ELSE LET p == parseLogLine(lines[k])
       IN  IF Skipped(lines[k])
           THEN daily_loop(lines, k + 1, today0, epPrev, wPrev, wh)
           ELSE LET idx == TruncDiv(today0 - LocalMidnight(epPrev), 24)
                    add == epPrev > 0 /\ p.ep > epPrev /\ idx >= 0 /\ idx < DAYS
                IN  daily_loop(lines, k + 1, today0, p.ep, p.w,
                               IF add
                               THEN [wh EXCEPT ![DAYS - 1 - idx] =
                                                  @ + (wPrev + p.w) * (p.ep - epPrev)]
                               ELSE wh)

\* the while loop of monthly_get_handler from line k on; monthStart[j] is the
\* beginning of the month MOS-1-j months before the month of now
RECURSIVE monthly_loop(_, _, _, _, _, _)
monthly_loop(lines, k, monthNow, epPrev, wPrev, wh) ==
  IF k > Len(lines) THEN wh
  ELSE LET p == parseLogLine(lines[k])
       IN  IF Skipped(lines[k])
           THEN monthly_loop(lines, k + 1, monthNow, epPrev, wPrev, wh)
           ELSE LET j == MonthOf(epPrev) - (monthNow - (MOS - 1))
                    add == epPrev > 0 /\ p.ep > epPrev /\ j >= 0 /\ j < MOS
                IN  monthly_loop(lines, k + 1, monthNow, p.ep, p.w,
                                 IF add
                                 THEN [wh EXCEPT ![j] = @ + (wPrev + p.w) * (p.ep - epPrev)]
                                 ELSE wh)

\* String(cnt[h]? (sum[h]/cnt[h]) : 0.0f, 1), in tenths of a watt
HourlyValue(sum, cnt) == IF cnt # 0 THEN (20 * sum + cnt) \div (2 * cnt) ELSE 0
\* String(wh[i],1), in tenths of a Wh
DailyValue(wh2) == 5 * wh2
\* String(wh[i],0), in whole Wh
MonthlyValue(wh2) == (wh2 + 1) \div 2

HourlyAnswer(now, opened, lines) ==
  LET r == hourly_loop(lines, 1, LocalMidnight(now), Zeros(24), Zeros(24))
  IN  [kind |-> "hourly", now |-> now, opened |-> opened, sum |-> r.sum, cnt |-> r.cnt,
       values |-> [h \in 0 .. 23 |-> HourlyValue(r.sum[h], r.cnt[h])]]

DailyAnswer(now, opened, lines) ==
  LET wh == daily_loop(lines, 1, LocalMidnight(now), 0, 0, Zeros(DAYS))
  IN  [kind |-> "daily", now |-> now, opened |-> opened, sum |-> wh, cnt |-> Zeros(DAYS),
       values |-> [i \in 0 .. DAYS - 1 |-> DailyValue(wh[i])]]

MonthlyAnswer(now, opened, lines) ==
  LET wh == monthly_loop(lines, 1, MonthOf(now), 0, 0, Zeros(MOS))
  IN  [kind |-> "monthly", now |-> now, opened |-> opened, sum |-> wh, cnt |-> Zeros(MOS),
       values |-> [i \in 0 .. MOS - 1 |-> MonthlyValue(wh[i])]]

\* what the loop reads: nothing when SD.open("/log.csv", FILE_READ) fails
LinesRead(openOk) == IF openOk THEN csv ELSE <<>>

hourly_get_handler ==
  /\ variant = "agg" /\ agg.kind = "none"
  /\ \E now \in Nows, openOk \in BOOLEAN :
       agg' = HourlyAnswer(now, openOk, LinesRead(openOk))
  /\ UNCHANGED << variant, pc, millis, calls, ticks, lastEnergyMs, regRaw, decoded, reg, csv, boots, upd >>
  /\ UNCHANGED otaVars /\ UNCHANGED rtcVars /\ UNCHANGED snapVars

daily_get_handler ==
  /\ variant = "agg" /\ agg.kind = "none"
  /\ \E now \in Nows, openOk \in BOOLEAN :
       agg' = DailyAnswer(now, openOk, LinesRead(openOk))
  /\ UNCHANGED << variant, pc, millis, calls, ticks, lastEnergyMs, regRaw, decoded, reg, csv, boots, upd >>
  /\ UNCHANGED otaVars /\ UNCHANGED rtcVars /\ UNCHANGED snapVars

monthly_get_handler ==
  /\ variant = "agg" /\ agg.kind = "none"
  /\ \E now \in Nows, openOk \in BOOLEAN :
       agg' = MonthlyAnswer(now, openOk, LinesRead(openOk))
  /\ UNCHANGED << variant, pc, millis, calls, ticks, lastEnergyMs, regRaw, decoded, reg, csv, boots, upd >>
  /\ UNCHANGED otaVars /\ UNCHANGED rtcVars /\ UNCHANGED snapVars

\* the sequences over S of length at most n
RECURSIVE SeqsUpTo(_, _)
SeqsUpTo(S, n) ==
  IF n = 0 THEN { <<>> }
  ELSE LET shorter == SeqsUpTo(S, n - 1)
       IN  shorter \cup { Append(q, x) : q \in shorter, x \in S }

\* any log file of at most MaxLines lines
InitAgg ==
  /\ variant = "agg"
  /\ regRaw = 0 /\ decoded = NoDecode /\ reg = NoRegRead
  /\ csv \in SeqsUpTo(LogLines, MaxLines) /\ agg = NoAgg
  /\ boots = 0 /\ upd = NoUpdate
  /\ FirmwareIdle

\* one request is served per behaviour: the handlers keep no state
NextAgg == hourly_get_handler \/ daily_get_handler \/ monthly_get_handler

SpecAgg == InitAgg /\ [][NextAgg]_vars


(************** the chart handlers on their own (part_001) *****************)
\* Powers are whole mW as the log holds them; a date is [y, m, d].
CHART_DAYS == 30
SHOW_DAYS == 7

\* the calendar of DateTime - TimeSpan(1, 0, 0, 0)
PrevDay(dt) ==
  IF dt.d > 1 THEN [dt EXCEPT !.d = dt.d - 1]
  ELSE IF dt.m > 1 THEN [y |-> dt.y, m |-> dt.m - 1, d |-> DaysInMonth(dt.y, dt.m - 1)]
  ELSE [y |-> dt.y - 1, m |-> 12, d |-> 31]

\* now - TimeSpan(n, 0, 0, 0)
RECURSIVE DaysBefore(_, _)
DaysBefore(dt, n) == IF n = 0 THEN dt ELSE DaysBefore(PrevDay(dt), n - 1)

\* the lines of /solar_log.csv: [blank (empty after trim), commas, iso (the
\* timestamp is "yyyy-mm-ddThh:mm:ss"), date, hour, p (the power_mW field)]
LogRow(date, hour, p) == [blank |-> FALSE, commas |-> 6, iso |-> TRUE,
                          date |-> date, hour |-> hour, p |-> p]
NoDate == [y |-> 0, m |-> 0, d |-> 0]
\* "timestamp,voltage_source_V,voltage_load_V,shunt_mV,current_mA,power_mW,energy_today_Wh"
LogHeader == [blank |-> FALSE, commas |-> 6, iso |-> FALSE, date |-> NoDate, hour |-> 0,
              p |-> 0]
EmptyLine == [blank |-> TRUE, commas |-> 0, iso |-> FALSE, date |-> NoDate, hour |-> 0,
              p |-> 0]
\* "123s,12.100,12.000,30.000,500.0,50000.0,1.250": a row logged without RTC
UptimeRow == [blank |-> FALSE, commas |-> 6, iso |-> FALSE, date |-> NoDate, hour |-> 0,
              p |-> 50000]
\* "2024-02-29T14:00:05,12.100,12.000": a row cut short
CutRow == [blank |-> FALSE, commas |-> 2, iso |-> TRUE,
           date |-> [y |-> 2024, m |-> 2, d |-> 29], hour |-> 14, p |-> 50000]

RowDates == { [y |-> 2023, m |-> 12, d |-> 31], [y |-> 2024, m |-> 2, d |-> 14],
              [y |-> 2024, m |-> 2, d |-> 29] }
RowSamples == { [hour |-> 9, p |-> 50000], [hour |-> 14, p |-> 50000],
                [hour |-> 14, p |-> 150000] }
ChartLines ==
  { LogRow(dt, r.hour, r.p) : dt \in RowDates, r \in RowSamples }
    \cup { EmptyLine, UptimeRow, CutRow }

\* what rtc.now() returns when a chart is requested: [date, hour]
ChartNows == { [date |-> [y |-> 2024, m |-> 1, d |-> 2], hour |-> 10],
               [date |-> [y |-> 2024, m |-> 2, d |-> 29], hour |-> 15],
               [date |-> [y |-> 2024, m |-> 3, d |-> 1], hour |-> 15] }

\* parseLogLine of part_001: false unless six commas are found
parseChartLine(line) == [ok |-> line.commas >= 6, p |-> line.p]

\* the lines the while loop sees: the first line of the file is read and
\* dropped as the header
AfterHeader(lines) == IF lines = <<>> THEN <<>> ELSE Tail(lines)

\* the while loop of handleHourly from line k on
RECURSIVE chart_hourly_loop(_, _, _, _)
chart_hourly_loop(lines, k, sum, cnt) ==
  IF k > Len(lines) THEN [sum |-> sum, cnt |-> cnt]
  ELSE LET l == lines[k]
       IN  IF l.blank \/ ~parseChartLine(l).ok \/ ~l.iso \/ l.hour < 0 \/ l.hour >= 24
           THEN chart_hourly_loop(lines, k + 1, sum, cnt)
           ELSE chart_hourly_loop(lines, k + 1,
                                  [sum EXCEPT ![l.hour] = @ + parseChartLine(l).p],
                                  [cnt EXCEPT ![l.hour] = @ + 1])

\* int daysAgo = (todayYear - year) * 365 + (todayMonth - month) * 30 + (todayDay - day);
DaysAgo(today, date) ==
  (today.y - date.y) * 365 + (today.m - date.m) * 30 + (today.d - date.d)

\* the while loop of handleDaily from line k on
RECURSIVE chart_daily_loop(_, _, _, _, _)
chart_daily_loop(lines, k, today, sum, cnt) ==
  IF k > Len(lines) THEN [sum |-> sum, cnt |-> cnt]
  ELSE LET l == lines[k]
           daysAgo == DaysAgo(today, l.date)
       IN  IF l.blank \/ ~parseChartLine(l).ok \/ ~l.iso
              \/ daysAgo < 0 \/ daysAgo >= CHART_DAYS
           THEN chart_daily_loop(lines, k + 1, today, sum, cnt)
           ELSE chart_daily_loop(lines, k + 1, today,
                  [sum EXCEPT ![CHART_DAYS - 1 - daysAgo] = @ + parseChartLine(l).p],
                  [cnt EXCEPT ![CHART_DAYS - 1 - daysAgo] = @ + 1])

\* String(cnt[h] > 0 ? ((sum[h] / cnt[h]) / 1000.0) : 0.0, 2), in hundredths of a watt
ChartHourlyValue(sum, cnt) == IF cnt > 0 THEN (2 * sum + 10 * cnt) \div (20 * cnt) ELSE 0

\* hours = (dailyCnt[i] * 5.0) / 3600.0; wh[i] = (dailySum[i] / dailyCnt[i]) * hours / 1000.0;
\* String(wh[i], 2), in hundredths of a Wh
ChartDailyValue(sum, cnt) == IF cnt > 0 THEN (10 * sum + 36000) \div 72000 ELSE 0

\* dayDates[i]: the month and day CHART_DAYS-1-i days before now, or
\* "Day n" without RTC
DayLabel(rtc, today, i) ==
  IF rtc
  THEN LET t == DaysBefore(today, CHART_DAYS - 1 - i) IN [m |-> t.m, d |-> t.d]
  ELSE [m |-> 0, d |-> CHART_DAYS - i]

\* handleHourly: all 24 hours are shown when there is no RTC
handleHourlyAnswer(rtc, now, opened, lines) ==
  LET r == chart_hourly_loop(IF opened THEN AfterHeader(lines) ELSE <<>>, 1,
                             Zeros(24), Zeros(24))
      currentHour == IF rtc THEN now.hour ELSE 23
  IN  [kind |-> "hourly", rtc |-> rtc, now |-> now, opened |-> opened,
       sum |-> r.sum, cnt |-> r.cnt,
       labels |-> [h \in 0 .. currentHour |-> h],
       values |-> [h \in 0 .. currentHour |-> ChartHourlyValue(r.sum[h], r.cnt[h])]]

\* handleDaily: the file is only read with an RTC; the last SHOW_DAYS of the
\* CHART_DAYS buckets are sent
handleDailyAnswer(rtc, now, opened, lines) ==
  LET r == chart_daily_loop(IF rtc /\ opened THEN AfterHeader(lines) ELSE <<>>, 1,
                            now.date, Zeros(CHART_DAYS), Zeros(CHART_DAYS))
      shown == (CHART_DAYS - SHOW_DAYS) .. (CHART_DAYS - 1)
  IN  [kind |-> "daily", rtc |-> rtc, now |-> now, opened |-> opened,
       sum |-> r.sum, cnt |-> r.cnt,
       labels |-> [i \in shown |-> DayLabel(rtc, now.date, i)],
       values |-> [i \in shown |-> ChartDailyValue(r.sum[i], r.cnt[i])]]

\* a request of /agg/hourly; opened is haveSD with SD.open succeeding
handleHourly ==
  /\ variant = "chart" /\ agg.kind = "none"
  /\ \E rtc \in BOOLEAN, now \in ChartNows, opened \in BOOLEAN :
       agg' = handleHourlyAnswer(rtc, now, opened, csv)
  /\ UNCHANGED << variant, pc, millis, calls, ticks, lastEnergyMs, regRaw, decoded, reg, csv, boots, upd >>
  /\ UNCHANGED otaVars /\ UNCHANGED rtcVars /\ UNCHANGED snapVars

\* a request of /agg/daily
handleDaily ==
  /\ variant = "chart" /\ agg.kind = "none"
  /\ \E rtc \in BOOLEAN, now \in ChartNows, opened \in BOOLEAN :
       agg' = handleDailyAnswer(rtc, now, opened, csv)
  /\ UNCHANGED << variant, pc, millis, calls, ticks, lastEnergyMs, regRaw, decoded, reg, csv, boots, upd >>
  /\ UNCHANGED otaVars /\ UNCHANGED rtcVars /\ UNCHANGED snapVars

\* a log file as initSD and logSample leave it: the header and at most
\* MaxLines lines
InitChart ==
  /\ variant = "chart"
  /\ regRaw = 0 /\ decoded = NoDecode /\ reg = NoRegRead
  /\ csv \in { << LogHeader >> \o q : q \in SeqsUpTo(ChartLines, MaxLines) }
  /\ agg = NoAgg /\ boots = 0 /\ upd = NoUpdate
  /\ FirmwareIdle

\* one request is served per behaviour: the handlers keep no state
NextChart == handleHourly \/ handleDaily

SpecChart == InitChart /\ [][NextChart]_vars

(***************** firmware updates on their own (part_001) ****************)
OTA_PASSWORD == "solar123"

\* what a client may present as the password
Passwords == { OTA_PASSWORD, "guess", "" }

\* ArduinoOTA.handle() serving one invitation of the network port: the
\* library (ArduinoOTA.setPassword) installs the image and reboots only for a
\* client that authenticates with the password
arduino_ota ==
  /\ variant = "update" /\ upd.phase = "idle" /\ ~upd.rebooted
  /\ upd.updates < MaxUpdates
  /\ \E okFlash \in BOOLEAN :
       upd' = IF upd.supplied = OTA_PASSWORD /\ okFlash
              THEN [upd EXCEPT !.image = "uploaded", !.rebooted = TRUE,
                               !.updates = @ + 1]
              ELSE [upd EXCEPT !.updates = @ + 1]
  /\ UNCHANGED << variant, pc, millis, calls, ticks, lastEnergyMs, regRaw, decoded, reg,
                  csv, agg, boots >>
  /\ UNCHANGED otaVars /\ UNCHANGED rtcVars /\ UNCHANGED snapVars

\* handleUpdateUpload, UPLOAD_FILE_START: Update.begin()
handleUpdateUpload_start ==
  /\ variant = "update" /\ upd.phase = "idle" /\ ~upd.rebooted
  /\ upd.updates < MaxUpdates
  /\ \E okBegin \in BOOLEAN :
       upd' = [upd EXCEPT !.phase = "write", !.chunks = 0, !.error = ~okBegin,
                          !.updates = @ + 1]
  /\ UNCHANGED << variant, pc, millis, calls, ticks, lastEnergyMs, regRaw, decoded, reg,
                  csv, agg, boots >>
  /\ UNCHANGED otaVars /\ UNCHANGED rtcVars /\ UNCHANGED snapVars

\* handleUpdateUpload, UPLOAD_FILE_WRITE: Update.write(up.buf, up.currentSize)
handleUpdateUpload_write ==
  /\ variant = "update" /\ upd.phase = "write" /\ upd.chunks < MaxChunks
  /\ \E okWrite \in BOOLEAN :
       upd' = [upd EXCEPT !.chunks = @ + 1, !.error = upd.error \/ ~okWrite]
  /\ UNCHANGED << variant, pc, millis, calls, ticks, lastEnergyMs, regRaw, decoded, reg,
                  csv, agg, boots >>
  /\ UNCHANGED otaVars /\ UNCHANGED rtcVars /\ UNCHANGED snapVars

\* handleUpdateUpload, UPLOAD_FILE_END: Update.end(true)
handleUpdateUpload_end ==
  /\ variant = "update" /\ upd.phase = "write"
  /\ \E okEnd \in BOOLEAN :
       upd' = [upd EXCEPT !.phase = "end", !.error = upd.error \/ ~okEnd,
                          !.image = IF ~upd.error /\ okEnd THEN "uploaded" ELSE upd.image]
  /\ UNCHANGED << variant, pc, millis, calls, ticks, lastEnergyMs, regRaw, decoded, reg,
                  csv, agg, boots >>
  /\ UNCHANGED otaVars /\ UNCHANGED rtcVars /\ UNCHANGED snapVars

\* handleUpdateFinish, the handler of POST /update: it runs after the upload,
\* and also for a POST that carries no file
handleUpdateFinish ==
  /\ variant = "update" /\ upd.phase \in {"idle", "end"} /\ ~upd.rebooted
  /\ upd.phase = "idle" => upd.updates < MaxUpdates
  /\ LET ok == ~upd.error
     IN  upd' = [upd EXCEPT !.phase = "idle", !.rebooted = ok,
                            !.error = IF ok THEN FALSE ELSE upd.error,
                            !.updates = IF upd.phase = "idle" THEN @ + 1 ELSE @]
  /\ UNCHANGED << variant, pc, millis, calls, ticks, lastEnergyMs, regRaw, decoded, reg,
                  csv, agg, boots >>
  /\ UNCHANGED otaVars /\ UNCHANGED rtcVars /\ UNCHANGED snapVars

\* a client that presents any of the passwords, or none
InitUpdate ==
  /\ variant = "update"
  /\ regRaw = 0 /\ decoded = NoDecode /\ reg = NoRegRead
  /\ csv = <<>> /\ agg = NoAgg /\ boots = 0
  /\ \E pw \in Passwords : upd = [NoUpdate EXCEPT !.supplied = pw]
  /\ FirmwareIdle

NextUpdate ==
  \/ arduino_ota
  \/ handleUpdateUpload_start \/ handleUpdateUpload_write \/ handleUpdateUpload_end
  \/ handleUpdateFinish

SpecUpdate == InitUpdate /\ [][NextUpdate]_vars

(******************************* properties ********************************)
\* the Samples a reader may legitimately return
WholeSamples == {DefaultSample} \cup {published[k] : k \in 1 .. Len(published)}

\* C1: under any interleaving of one publishSnapshot with getSnapshotCopy
\* readers, the Sample getSnapshotCopy returns is never torn: it is the
\* default Sample or one of the published Samples, field for field.
C1_NeverTorn == rseen.done => rseen.out \in WholeSamples

\* C1 witness: a reader has returned, with the sensor present, and a publish
\* began while that reader was running.
C1_ReadOverlapsPublish ==
  /\ variant = "snap" /\ rseen.done /\ haveINA
  /\ Len(published) > rseen.pubs

\* C2: a getSnapshotCopy that starts after publishSnapshot(s) has completed
\* and returns before any later publish starts returns s, the latest
\* published Sample.
C2_ReturnsLatest ==
  (rseen.done /\ rseen.quiet /\ Len(published) > 0 /\ rseen.pubs = Len(published))
    => rseen.out = published[Len(published)]

\* C3: across any sequence of steps the accumulated energy total never
\* decreases except at an explicit period reset, whatever the sign of the
\* measured power.
C3_TotalNeverDecreases ==
  [][ /\ energy_Wh' >= energy_Wh
      /\ (energyToday_Wh' >= energyToday_Wh \/ resets' > resets) ]_vars

\* the step is an integration call (data_get_handler, or logSample from loop)
\* of one of the three logging variants
IntegrationCall ==
  variant \in {"ota", "http", "rtc"} /\ calls' = calls + 1

\* the power the call integrates, and the time it integrates over
CallPower == IF variant = "rtc" THEN console'.power ELSE served'.power
CallElapsed == ElapsedMs(millis', lastEnergyMs)
CallContribution == IF isnan(CallPower) THEN 0 ELSE CallPower.val * CallElapsed

\* C4 (as stated): the first integration call after boot leaves the energy
\* total at 0 and only records the baseline timestamp.
C4_FirstCallAddsNothing ==
  (variant \in {"ota", "http", "rtc"} /\ calls = 1)
    => (energy_Wh = 0 /\ energyToday_Wh = 0 /\ lastEnergyMs = millis)

\* C4 (amended): the first integration call records its own time as the new
\* baseline. In the two data_get_handler variants, which boot without a
\* baseline, it leaves the total at 0; in the logSample variant, where setup()
\* has already recorded the baseline, it adds power x (now - baseline of
\* setup) when the power is available, so the time before the end of setup()
\* never contributes.
C4_FirstCallBaseline ==
  [][ (IntegrationCall /\ calls = 0)
        => /\ lastEnergyMs' = millis'
           /\ energy_Wh' = 0
           /\ energyToday_Wh' = (IF variant = "rtc" THEN CallContribution ELSE 0) ]_vars

\* C4 witness: the first data_get_handler call has measured positive power
\* long after boot and the total is still 0.
C4_FirstCallDone ==
  /\ variant = "ota" /\ calls = 1
  /\ served.power.val > 0 /\ millis >= 1000
  /\ energy_Wh = 0 /\ lastEnergyMs = millis

\* C5 (as stated): every integration call after the first adds exactly
\* power x (now - last_update_time) to the total when the power is available
\* and nothing when it is not, and sets last_update_time to now.
C5_AddsPowerTimesElapsed ==
  [][ (IntegrationCall /\ calls >= 1)
        => /\ lastEnergyMs' = millis'
           /\ energy_Wh' + energyToday_Wh'
                = energy_Wh + energyToday_Wh + CallContribution ]_vars

\* C5 (amended): every integration call after the first sets last_update_time
\* to now, and
\*   - logSample adds power x (now - last_update_time) when the power is
\*     available and nothing when it is not, on top of the total left by the
\*     midnight reset of the same call (0 when it fired);
\*   - data_get_handler of the OTA variant adds power x (now -
\*     last_update_time) only when the power is positive and the stored
\*     timestamp is not 0, and nothing otherwise;
\*   - data_get_handler of part_000 adds power x (now - last_update_time) for
\*     either sign of the power, and nothing when the stored timestamp is 0.
C5_LaterCallsIntegrate ==
  [][ (IntegrationCall /\ calls >= 1)
        => /\ lastEnergyMs' = millis'
           /\ variant = "rtc" =>
                energyToday_Wh' = (IF resets' > resets THEN 0 ELSE energyToday_Wh)
                                    + CallContribution
           /\ variant = "ota" =>
                energy_Wh' = energy_Wh
                  + (IF lastEnergyMs > 0 /\ CallPower.val > 0 THEN CallContribution ELSE 0)
           /\ variant = "http" =>
                energy_Wh' = energy_Wh
                  + (IF lastEnergyMs # 0 THEN CallContribution ELSE 0) ]_vars

\* C5 witness: a second logSample has run with the sensor present and the
\* total holds energy.
C5_SecondCallDone ==
  /\ variant = "rtc" /\ calls = 2 /\ haveINA
  /\ ~isnan(console.power) /\ energyToday_Wh > 0

\* C6: in logSample with a clock, when the day of year differs from the anchor
\* lastDayOfYear the total after the call is exactly the new sample's
\* contribution and the anchor is the new day, in the same call; when the day
\* is unchanged nothing is reset. Resets happen in no other step, so a day
\* change causes exactly one reset.
C6_ResetThenAdd ==
  [][ /\ (variant = "rtc" /\ haveRTC /\ calls' = calls + 1)
         => IF dayOfYear(rtcDate) # lastDayOfYear
            THEN /\ energyToday_Wh' = CallContribution
                 /\ lastDayOfYear' = dayOfYear(rtcDate)
                 /\ resets' = resets + 1
            ELSE /\ energyToday_Wh' = energyToday_Wh + CallContribution
                 /\ lastDayOfYear' = lastDayOfYear
                 /\ resets' = resets
      /\ (variant = "rtc" /\ calls' = calls /\ pc = "running")
         => (resets' = resets /\ lastDayOfYear' = lastDayOfYear) ]_vars

\* C6 witness: one day change, one reset, and the total holds the
\* contribution of the sample that followed it.
C6_ResetHappened ==
  /\ variant = "rtc" /\ haveRTC /\ days = 1 /\ resets = 1
  /\ lastDayOfYear = dayOfYear(rtcDate) /\ energyToday_Wh > 0

\* C7: without a clock (haveRTC false) no sequence of sampling cycles resets
\* the energy total: no step resets, lowers the total or moves the anchor.
C7_NoClockNoReset ==
  [][ (variant = "rtc" /\ pc = "running" /\ ~haveRTC)
        => /\ resets' = resets
           /\ energyToday_Wh' >= energyToday_Wh
           /\ lastDayOfYear' = lastDayOfYear ]_vars

\* C7 witness: two sampling cycles without a clock, midnight in between, the
\* total holds energy and was never reset.
C7_TwoCyclesNoClock ==
  /\ variant = "rtc" /\ pc = "running" /\ ~haveRTC
  /\ calls = 2 /\ days >= 1 /\ energyToday_Wh > 0 /\ resets = 0

\* C8: when the bus read of the voltage or current register fails during an
\* acquisition, the corresponding field served by /data is unavailable (NaN),
\* never zero or another default value.
C8_FailedReadUnavailable ==
  (variant \in {"ota", "http"} /\ calls >= 1)
    => /\ ~served.vOk => isnan(served.voltage)
       /\ ~served.iOk => isnan(served.current)

\* C9: after any outcome of INA219_init, a successful INA219_read_current_A
\* never decodes with an unprogrammed calibration: current_lsb and
\* ina219_calValue are computed and the calibration register holds the value.
C9_CurrentNeedsCalibration ==
  (variant = "ota" /\ calls >= 1 /\ served.iOk)
    => (current_lsb # 0 /\ ina219_calValue # 0 /\ devCal = ina219_calValue)

\* C10: for every 16-bit raw bus-voltage register value the decoded bus
\* voltage is (raw >> 3) x 4 mV (16 quarter-millivolts per step), whatever the
\* three low status bits are.
C10_VbusShiftedTimes4mV ==
  decoded.done
    => /\ decoded.vbus_ota = (regRaw \div 8) * 16
       /\ decoded.vbus_http = (regRaw \div 8) * 16


ExpectedCal(k) ==
  IF sdOk /\ calFile # <<>> /\ calFile[k] > 0 THEN calFile[k] ELSE CAL_DEFAULT

\* C12: after the startup calibration load, each of CAL_V and CAL_I equals
\* the persisted value if that value is > 0, and 1.0 otherwise (missing file,
\* unreadable storage, zero or negative value).
C12_LoadSanitised ==
  (variant \in {"ota", "http"} /\ pc # "boot" /\ calSets = 0)
    => (CAL_I = ExpectedCal(1) /\ CAL_V = ExpectedCal(2))

\* C13: after startup CAL_V and CAL_I change only in the calibration-update
\* handler, and every update is written to /cal.cfg within the same handler
\* invocation: once it has changed a value, the file holds the two values in
\* memory.
C13_WriteThrough ==
  [][ /\ (pc # "boot" /\ (CAL_I' # CAL_I \/ CAL_V' # CAL_V))
         => /\ calSets' = calSets + 1
            /\ calFile' = << CAL_I', CAL_V' >> ]_vars


\* what inaReadRegSafe has done so far is within its contract: no more bus
\* attempts than `retries`; a true return carries the value of the first good
\* reply, which is the last attempt made; a false return carries 0xFFFF after
\* exactly `retries` attempts, none of them good
RegReadWithinContract ==
  /\ Len(reg.hist) <= reg.retries0
  /\ reg.pc = "done" =>
       LET n == Len(reg.hist)
       IN IF reg.ret
          THEN /\ n >= 1 /\ reg.hist[n].kind = "ok" /\ reg.outVal = reg.hist[n].val
               /\ \A k \in 1 .. n - 1 : reg.hist[k].kind # "ok"
          ELSE /\ reg.outVal = 65535 /\ n = reg.retries0
               /\ \A k \in 1 .. n : reg.hist[k].kind # "ok"

\* C14: inaReadRegSafe always terminates: it makes at most `retries` bus
\* attempts, returns true with the value of the first attempt that yields 2
\* bytes, and otherwise returns false with outVal = 0xFFFF, whatever the bus
\* does.
C14_BoundedRetries == [](RegReadWithinContract) /\ <>(reg.pc = "done")

\* C14 witness: a call with the default 4 retries saw three failed attempts
\* of different kinds and returned the value of the fourth.
C14_FourthAttemptGood ==
  /\ variant = "regs" /\ reg.pc = "done" /\ reg.ret
  /\ reg.retries0 = DefaultRetries /\ Len(reg.hist) = 4
  /\ reg.hist[1].kind = "nack" /\ reg.hist[2].kind = "short"
  /\ reg.outVal = 14751


\* what the cycle reports about a failed append: logSample prints
\* "SD: append failed" when the file does not open, and /health answers
\* "sd":0 while the card is not mounted; data_get_handler has no else branch
\* and prints, counts and returns nothing
AppendFailureReported ==
  IF variant = "rtc" THEN (console'.sdMsg = "SD: append failed" \/ ~haveSD) ELSE FALSE

\* C15: when the log storage is unavailable or an append fails, the failure
\* is reported, the write is skipped, and the sampling cycle still completes:
\* the sample is measured, energy is integrated and last_update_time
\* advances. (An integration call that leaves the log as it was is a call
\* whose append failed or was skipped.)
C15_FailedAppendReported ==
  [][ (IntegrationCall /\ logCsv' = logCsv)
        => /\ AppendFailureReported
           /\ lastEnergyMs' = millis' ]_vars

\* the rows of a log, in file order
LogRows(log) == { k \in 1 .. Len(log) : log[k].kind = "row" }

\* C18: the time-series log is append-only and time-ordered: no step
\* modifies or removes an existing record, and the timestamps of the records
\* of /solar_log.csv are non-decreasing in file order.
C18_AppendOnlyTimeOrdered ==
  /\ [][ Len(logCsv') >= Len(logCsv)
         /\ SubSeq(logCsv', 1, Len(logCsv)) = logCsv ]_vars
  /\ [](variant = "rtc" =>
          \A j, k \in LogRows(logCsv) :
             j < k => logCsv[j].ts.key <= logCsv[k].ts.key)


\* as many acquisition cycles have occurred as the bounds of the model allow
AcquisitionsRanOn ==
  calls >= MaxCalls \/ ticks >= MaxTicks \/ Len(published) >= MaxPublish

\* C16: sampling is never stopped by an error or by the network: in every
\* execution, whether or not Wi-Fi ever connects, the sensor initialises or
\* the SD card mounts, startup completes and acquisition cycles keep
\* occurring (here: until the model's bound on cycles is reached).
C16_SamplingNeverStops == <>(pc = "running") /\ <>(AcquisitionsRanOn)


\* INA219_init did not complete: current_lsb was never computed, or the
\* calibration register does not hold ina219_calValue
InitIncomplete == current_lsb = 0 \/ devCal # ina219_calValue

\* the status the answer of /data carries: the register reads of the request
\* succeeded (busReadOk, configReadOk and found_0x40 are true for a chip that
\* answers)
AnswerSaysSensorOk == served.vOk /\ served.iOk

\* C17: if sensor initialisation (the calibration-register write included)
\* fails, the system keeps running and every later answer shows the
\* degradation in a health field; it is never reported as healthy. In
\* part_001 the field is "ina219" of /health (haveINA); the OTA variant
\* answers /data with the status of its register reads.
C17_DegradationVisible ==
  /\ (variant = "rtc" /\ pc = "running" /\ calls >= 1 /\ isnan(console.power))
       => ~haveINA
  /\ (variant = "ota" /\ pc = "running" /\ calls >= 1 /\ InitIncomplete)
       => ~AnswerSaysSensorOk


\* the log without its k-th line
RemoveLine(lines, k) == SubSeq(lines, 1, k - 1) \o SubSeq(lines, k + 1, Len(lines))

\* what a request of the same kind at the same instant answers for a log
AnswerFor(kind, now, lines) ==
  CASE kind = "hourly" -> HourlyAnswer(now, TRUE, lines)
    [] kind = "daily" -> DailyAnswer(now, TRUE, lines)
    [] OTHER -> MonthlyAnswer(now, TRUE, lines)

\* a line whose field count is not 5 or whose epoch field is not a number
Malformed(line) == line.commas # 4 \/ ~line.numeric

\* C19: a malformed log line (wrong field count or non-numeric epoch) is
\* skipped by the hourly, daily and monthly aggregation: the answer equals
\* the answer for the log with that line removed.
C19_MalformedSkipped ==
  (agg.kind # "none" /\ agg.opened)
    => \A k \in 1 .. Len(csv) :
         Malformed(csv[k]) => agg = AnswerFor(agg.kind, agg.now, RemoveLine(csv, k))

\* a log of well-formed rows with increasing timestamps
CleanLog(lines) ==
  /\ \A k \in 1 .. Len(lines) :
       ~Malformed(lines[k]) /\ ~lines[k].short /\ ~lines[k].header /\ lines[k].ep > 0
  /\ \A k \in 1 .. Len(lines) - 1 : lines[k].ep < lines[k + 1].ep

\* the bucket of the answer that stands for the day, or month, an instant
\* falls in (the last bucket is today, or this month)
BucketOf(kind, now, ep) ==
  IF kind = "daily" THEN (DAYS - 1) - (DayOf(now) - DayOf(ep))
  ELSE (MOS - 1) - (MonthOf(now) - MonthOf(ep))

\* twice the sum of (elapsed hours) x (average power) over the consecutive
\* pairs k, k+1 of the log with k in K
RECURSIVE TrapezoidSum(_, _)
TrapezoidSum(lines, K) ==
  IF K = {} THEN 0
  ELSE LET k == CHOOSE x \in K : TRUE
       IN  (lines[k].w + lines[k + 1].w) * (lines[k + 1].ep - lines[k].ep)
             + TrapezoidSum(lines, K \ {k})

\* C20: daily and monthly aggregation are trapezoidal: each consecutive pair
\* of samples adds (elapsed hours) x (average power) to exactly one bucket,
\* the day or month containing the earlier timestamp; a bucket of the answer is
\* the sum of the pairs it receives, and 0 when it receives none.
C20_TrapezoidBuckets ==
  (agg.kind \in {"daily", "monthly"} /\ agg.opened /\ CleanLog(csv))
    => \A i \in DOMAIN agg.sum :
         agg.sum[i] = TrapezoidSum(csv, { k \in 1 .. Len(csv) - 1 :
                                          BucketOf(agg.kind, agg.now, csv[k].ep) = i })

\* the same, for requests that arrive before the clock change
C20_BeforeClockChange ==
  agg.now < 24 * DstDay => C20_TrapezoidBuckets


\* the lines of the log part_000 takes for samples of hour h of the day of now
SamplesOfHour(lines, now, h) ==
  { k \in 1 .. Len(lines) :
      /\ ~Skipped(lines[k])
      /\ LocalMidnight(parseLogLine(lines[k]).ep) = LocalMidnight(now)
      /\ HourOf(parseLogLine(lines[k]).ep) = h }

RECURSIVE SumOfWatts(_, _)
SumOfWatts(lines, K) ==
  IF K = {} THEN 0
  ELSE LET k == CHOOSE x \in K : TRUE
       IN  lines[k].w + SumOfWatts(lines, K \ {k})

\* C21: the hourly aggregation output has exactly one entry, in order, for
\* each hour 0..current-hour; the entry of an hour is the sum of the powers of
\* that hour's records divided by their count, and 0 (present, not omitted)
\* for an hour without records.
C21_HourlyEntries ==
  (agg.kind = "hourly" /\ agg.opened)
    => /\ DOMAIN agg.values = 0 .. HourOf(agg.now)
       /\ \A h \in 0 .. HourOf(agg.now) :
            agg.values[h] = HourlyValue(SumOfWatts(csv, SamplesOfHour(csv, agg.now, h)),
                                        Cardinality(SamplesOfHour(csv, agg.now, h)))

\* the rows of the part_001 log that carry the date dt
RowsOfDate(lines, dt) ==
  { k \in 2 .. Len(lines) :
      ~lines[k].blank /\ parseChartLine(lines[k]).ok /\ lines[k].iso /\ lines[k].date = dt }

\* C22: the hourly aggregation only counts records whose timestamp lies
\* within the current day; a record of an earlier day never contributes to an
\* hourly bucket.
C22_HourlyOnlyToday ==
  (agg.kind = "hourly" /\ agg.rtc /\ agg.opened)
    => \A h \in 0 .. 23 :
         agg.cnt[h] = Cardinality({ k \in RowsOfDate(csv, agg.now.date) : csv[k].hour = h })

\* C25: in the daily chart every log record whose date lies in the displayed
\* window is counted in the bucket whose label is the record's calendar date.
C25_DailyBucketIsDate ==
  (agg.kind = "daily" /\ agg.rtc /\ agg.opened)
    => \A i \in DOMAIN agg.labels :
         LET day == DaysBefore(agg.now.date, CHART_DAYS - 1 - i)
         IN  /\ agg.labels[i] = [m |-> day.m, d |-> day.d]
             /\ agg.cnt[i] = Cardinality(RowsOfDate(csv, day))


\* the part_001 chart with an RTC does stop at the current hour
C21_ChartUpToCurrentHour ==
  (variant = "chart" /\ agg.kind = "hourly" /\ agg.rtc)
    => DOMAIN agg.values = 0 .. agg.now.hour


\* C23: an energy total accumulated before a restart of the device is still
\* present after the restart (only a period reset returns it to 0).
C23_EnergySurvivesRestart ==
  [][ boots' = boots + 1
        => (energy_Wh' = energy_Wh /\ energyToday_Wh' = energyToday_Wh) ]_vars


\* C24: every path that replaces the firmware over the network is protected
\* by the OTA password: no image is accepted and no update-triggered reboot
\* happens for a client that has not supplied it.
C24_UpdateNeedsPassword ==
  (upd.image = "uploaded" \/ upd.rebooted) => upd.supplied = OTA_PASSWORD


\* C26: in every state after startup, whatever calibration updates were
\* requested (missing, zero, negative or non-numeric values included), CAL_V
\* and CAL_I are strictly positive.
C26_CalAlwaysPositive ==
  (variant \in {"ota", "http"} /\ pc # "boot") => (CAL_I > 0 /\ CAL_V > 0)

\* the same for part_000 before any update: its setup() sanitises what it loads
C26_PositiveAfterLoad_http ==
  (variant = "http" /\ pc # "boot" /\ calSets = 0) => (CAL_I > 0 /\ CAL_V > 0)


\* loop() of the sampler variant finishes a sampling tick: sampleINA has
\* published ws, and the tick integrates and moves the baseline
SamplerTickEnds == variant = "snap" /\ pc = "running" /\ wpc = "after" /\ wpc' = "idle"

\* C27: in the sampler-loop variant every sampling tick taken with the sensor
\* present and a non-NaN measured power increases energyToday_Wh by that
\* power times the time elapsed since the previous tick: the power integrated
\* is the power of the sample that sampleINA just published.
C27_TickIntegratesPublished ==
  [][ (SamplerTickEnds /\ haveINA /\ ~isnan(ws.power_mW))
        => energyToday_Wh' =
             energyToday_Wh + ws.power_mW.val * ElapsedMs(lastSampleMs, lastEnergyMs) ]_vars


\* a call of getSnapshotCopy is under way; publishSnapshot is under way
ReaderInCall == rpc \in {"s1", "copy", "s2"}
WriterInPublish == wpc \in {"begin", "copy", "end"}

C29_ElapsedAcrossWrap ==
  [][ /\ (variant = "rtc" /\ ticks' = ticks + 1
            /\ ElapsedMs(millis', lastLogMs) >= LOG_INTERVAL_MS)
         => calls' = calls + 1
      /\ (IntegrationCall /\ calls >= 1 /\ resets' = resets
            /\ ~isnan(CallPower) /\ CallPower.val > 0)
         => energy_Wh' + energyToday_Wh'
              = energy_Wh + energyToday_Wh
                  + CallPower.val * ElapsedMs(millis', lastEnergyMs) ]_vars

\* the same once the calls whose stored baseline is the counter value 0 are
\* left out
C29_ExceptBaselineZero ==
  [][ (IntegrationCall /\ calls >= 1 /\ resets' = resets /\ lastEnergyMs # 0
         /\ ~isnan(CallPower) /\ CallPower.val > 0)
        => energy_Wh' + energyToday_Wh'
             = energy_Wh + energyToday_Wh
                 + CallPower.val * ElapsedMs(millis', lastEnergyMs) ]_vars


(************ dayOfYear and maybeMidnightReset on their own (part_001) *****)
\* the years the dates are drawn from: a century leap year, a common year and
\* a leap year (the DateTime of the RTC library covers 2000..2099)
Years == {2000, 2023, 2024}

\* every calendar date of those years
ValidDates ==
  { dt \in [y : Years, m : 1..12, d : 1..31] : dt.d <= DaysInMonth(dt.y, dt.m) }

\* maybeMidnightReset(now) with now = rtc.now(), called by logSample; one call
\* is taken per calendar date (logSample runs every LOG_INTERVAL_MS, and a
\* second call on the same date changes nothing)
maybeMidnightReset ==
  /\ variant = "doy" /\ ticks <= days
  /\ ticks' = ticks + 1
  /\ LET doy == dayOfYear(rtcDate)
     IN IF lastDayOfYear = -1
        THEN /\ lastDayOfYear' = doy
             /\ UNCHANGED << energyToday_Wh, resets >>
        ELSE IF doy # lastDayOfYear
        THEN /\ lastDayOfYear' = doy
             /\ energyToday_Wh' = 0
             /\ resets' = resets + 1
        ELSE UNCHANGED << lastDayOfYear, energyToday_Wh, resets >>
  /\ UNCHANGED << variant, pc, millis, calls, lastEnergyMs >>
  /\ UNCHANGED otaVars /\ UNCHANGED snapVars /\ UNCHANGED codecVars
  /\ UNCHANGED << lastLogMs, haveRTC, haveINA, haveSD, rtcDate, days, console >>

\* the RTC passes midnight after the date's call was made
day_passes ==
  /\ variant = "doy" /\ ticks > days /\ days < MaxDays
  /\ rtcDate' = NextDay(rtcDate)
  /\ days' = days + 1
  /\ UNCHANGED << variant, pc, millis, calls, ticks, lastEnergyMs >>
  /\ UNCHANGED otaVars /\ UNCHANGED snapVars /\ UNCHANGED codecVars
  /\ UNCHANGED << energyToday_Wh, lastLogMs, haveRTC, haveINA, haveSD,
                  lastDayOfYear, resets, console >>

InitDoy ==
  /\ variant = "doy"
  /\ regRaw = 0 /\ decoded = NoDecode /\ reg = NoRegRead
  /\ csv = <<>> /\ agg = NoAgg /\ boots = 0 /\ upd = NoUpdate
  /\ pc = "running" /\ millis = 0 /\ calls = 0 /\ ticks = 0
  /\ energy_Wh = 0 /\ lastEnergyMs = 0
  /\ CAL_I = CAL_DEFAULT /\ CAL_V = CAL_DEFAULT
  /\ ina219_calValue = 0 /\ current_lsb = 0
  /\ devCal = 0 /\ sdOk = FALSE /\ calFile = <<>> /\ calSets = 0 /\ logCsv = <<>>
  /\ served = [vOk |-> FALSE, iOk |-> FALSE, voltage |-> NaN, current |-> NaN, power |-> NaN]
  /\ energyToday_Wh \in {0, 7} /\ lastLogMs = 0
  /\ haveRTC = TRUE /\ haveINA = FALSE /\ haveSD = FALSE
  /\ lastDayOfYear = -1
  /\ rtcDate \in ValidDates
  /\ days = 0 /\ resets = 0
  /\ console = [busV |-> NaN, shunt |-> NaN, current |-> NaN, power |-> NaN, sourceV |-> NaN,
               sdMsg |-> ""]
  /\ SNAP = [k \in {0, 1} |-> DefaultSample]
  /\ SNAP_SEQ = 0 /\ lastSampleMs = 0
  /\ published = <<>>
  /\ wpc = "idle" /\ wn = 0 /\ ws = DefaultSample /\ wfield = 1
  /\ rpc = "idle" /\ s1 = 0 /\ out = DefaultSample /\ rfield = 1
  /\ rseen = [done |-> FALSE, out |-> DefaultSample, pubs |-> 0, quiet |-> TRUE]

NextDoy == maybeMidnightReset \/ day_passes

SpecDoy == InitDoy /\ [][NextDoy]_vars

\* the ordinal of a date in its year, counted on the calendar: the number of
\* dates of that year up to and including it
Ordinal(dt) ==
  Cardinality({ e \in [y : {dt.y}, m : 1..12, d : 1..31] :
                  /\ e.d <= DaysInMonth(e.y, e.m)
                  /\ (e.m < dt.m \/ (e.m = dt.m /\ e.d <= dt.d)) })

\* the date's call of maybeMidnightReset has been made
DateSeen == variant = "doy" /\ ticks = days + 1

\* C30: dayOfYear is leap-safe. For every valid date it returns the true
\* ordinal day, in 1..365 or 1..366 (1 March is day 61 in the leap years 2000
\* and 2024 and day 60 in 2023), so the value differs between two consecutive
\* dates and maybeMidnightReset resets energyToday_Wh at every day change,
\* 31 December to 1 January included: after the call made on a date, the
\* anchor is that date's ordinal and one reset was made per day passed.
C30_DayOfYearLeapSafe ==
  DateSeen =>
    /\ lastDayOfYear = Ordinal(rtcDate)
    /\ lastDayOfYear \in 1..(IF rtcDate.y \in {2000, 2024} THEN 366 ELSE 365)
    /\ (rtcDate.m = 3 /\ rtcDate.d = 1)
         => lastDayOfYear = (IF rtcDate.y \in {2000, 2024} THEN 61 ELSE 60)
    /\ (rtcDate.m = 12 /\ rtcDate.d = 31)
         => lastDayOfYear = (IF rtcDate.y \in {2000, 2024} THEN 366 ELSE 365)
    /\ resets = days
    /\ days > 0 => energyToday_Wh = 0

\* 28 February 2024, the leap day and 1 March were seen in turn: two resets,
\* and 1 March is day 61
C30_LeapDayThenFirstMarch ==
  /\ DateSeen /\ rtcDate = [y |-> 2024, m |-> 3, d |-> 1]
  /\ days = 2 /\ resets = 2 /\ lastDayOfYear = 61 /\ energyToday_Wh = 0

=============================================================================
